---- MODULE Spec2Model ----
(***************************************************************************)
(* Model of the annotation-set reconciliation engine (src/pages/compare.py *)
(* calculate_iou, match_images_by_filename, create_category_mapping,       *)
(* compare_coco_annotations) and of the COCO file combiner                 *)
(* (src/tools/merge_only_coco.py combine).                                 *)
(*                                                                         *)
(* Specifications: SpecCompare and SpecCompareMalformed (the comparison),  *)
(* SpecCombine (combine, step by step), SpecMatch (the two matchers),      *)
(* SpecIou (calculate_iou), SpecReadOnly (the comparison and the matchers  *)
(* on the same collections), SpecCompareRecords (the comparison on         *)
(* collections that number images and categories differently),             *)
(* SpecSession (the Register, Filter, Merge and Category pages sharing one *)
(* session) and SpecCategoryEditor (the Category Editor page).             *)
(*                                                                         *)
(* Collections are records [images, categories, annotations] of sequences  *)
(* of records, as the JSON is loaded.  A Python dict is a TLA+ function    *)
(* whose domain is the key set; a dict comprehension over a list keeps the *)
(* value of the LAST element with a given key.  A key that a record does   *)
(* not carry is modelled by the value NoKey (ids) or <<>> (bbox); reading  *)
(* it raises KeyError.                                                     *)
(*                                                                         *)
(* Box coordinates are integers and an IoU is the exact fraction           *)
(* <<intersection, union>>; the float 0.0 is <<0, 1>>.  A threshold is a   *)
(* fraction <<num, den>> with den > 0.                                     *)
(***************************************************************************)
EXTENDS Integers, Sequences, FiniteSets, TLC

VARIABLES
    coco1, coco2, iou_threshold,   \* arguments of compare_coco_annotations
    cmp_pc,                        \* "ready" | "returned" | "raised"
    mismatches,                    \* the returned list
    tt1, tt2,                      \* contents of the two input files of combine
    d1, d2,                        \* the loaded collections, rewritten in place
    b1, b2,                        \* old image id -> new image id
    mrg_pc,                        \* position in combine
    mrg_err,                       \* the exception combine raised
    output_file,                   \* <<>> or <<the combined collection written>>
    ret_image_id_mapping,          \* what match_images_by_filename returned
    ret_category_id_mapping,       \* what create_category_mapping returned
    match_pc,                      \* position in the two matcher calls
    arg_box1, arg_box2,            \* arguments of calculate_iou
    ret_iou,                       \* what calculate_iou returned
    iou_pc,                        \* "ready" | "returned"
    clock,                         \* the second datetime.now() falls in
    task_path, merged_task_path,   \* st.session_state: <<>> is None
    now,                           \* st.session_state.now: <<>> or <<stamp>>
    s3_uri,                        \* st.session_state.s3_uri
    annotation_file,               \* file held by the Category Editor's uploader
    coco_data,                     \* st.session_state.coco_data: <<>> or <<collection>>
    category_options,              \* options the Remove multiselect was rendered with
    selected_cats_to_remove,       \* value of the Remove multiselect
    disk,                          \* exported/ and merged/ directories written
    s3_call,                       \* upload_to_s3 call of the latest script run
    ui_run                         \* page, button and message of the latest run

cmp_vars == <<coco1, coco2, iou_threshold, cmp_pc, mismatches>>
mrg_vars == <<tt1, tt2, d1, d2, b1, b2, mrg_pc, mrg_err, output_file>>
match_vars == <<ret_image_id_mapping, ret_category_id_mapping, match_pc>>
iou_vars == <<arg_box1, arg_box2, ret_iou, iou_pc>>
fn_vars == <<match_vars, iou_vars>>
session_vars == <<task_path, merged_task_path, now, s3_uri, coco_data>>
widget_vars == <<annotation_file, category_options, selected_cats_to_remove>>
ui_vars == <<clock, session_vars, widget_vars, disk, s3_call, ui_run>>
vars == <<cmp_vars, mrg_vars, fn_vars, ui_vars>>

----------------------------------------------------------------------------
(* Generic helpers *)

NoKey == -1

Max(a, b) == IF a >= b THEN a ELSE b
Min(a, b) == IF a <= b THEN a ELSE b

\* Indices of seq, as a set
Idx(seq) == 1..Len(seq)

\* The largest element of a non-empty set of integers
SetMax(S) == CHOOSE x \in S : \A y \in S : y <= x

\* {rec[k]: rec[v] for rec in seq}: the last record with a key decides
DictOf(seq, k, v) ==
    [key \in {seq[i][k] : i \in Idx(seq)} |->
        seq[SetMax({i \in Idx(seq) : seq[i][k] = key})][v]]

----------------------------------------------------------------------------
(* src/pages/compare.py *)

\* Mutant of calculate_iou: the union is computed from box1's area twice
calculate_iou_box1_twice(box1, box2) ==
    LET x1 == Max(box1[1], box2[1])
        y1 == Max(box1[2], box2[2])
        x2 == Min(box1[3], box2[3])
        y2 == Min(box1[4], box2[4])
        intersection_area == (x2 - x1) * (y2 - y1)
        box1_area == (box1[3] - box1[1]) * (box1[4] - box1[2])
        box2_area == (box2[3] - box2[1]) * (box2[4] - box2[2])
        union_area == box1_area + box1_area - intersection_area
    IN  IF x2 < x1 \/ y2 < y1 THEN <<0, 1>>
        ELSE IF union_area > 0 THEN <<intersection_area, union_area>>
        ELSE <<0, 1>>

\* Mutant of calculate_iou: the intersection is measured in inclusive pixels, (x2 - x1 + 1) * (y2 - y1 + 1)
calculate_iou_inclusive(box1, box2) ==
    LET x1 == Max(box1[1], box2[1])
        y1 == Max(box1[2], box2[2])
        x2 == Min(box1[3], box2[3])
        y2 == Min(box1[4], box2[4])
        intersection_area == (x2 - x1 + 1) * (y2 - y1 + 1)
        box1_area == (box1[3] - box1[1]) * (box1[4] - box1[2])
        box2_area == (box2[3] - box2[1]) * (box2[4] - box2[2])
        union_area == box1_area + box2_area - intersection_area
    IN  IF x2 < x1 \/ y2 < y1 THEN <<0, 1>>
        ELSE IF union_area > 0 THEN <<intersection_area, union_area>>
        ELSE <<0, 1>>

\* Mutant of calculate_iou: no test for an empty intersection (line 24)
calculate_iou_no_early_return(box1, box2) ==
    LET x1 == Max(box1[1], box2[1])
        y1 == Max(box1[2], box2[2])
        x2 == Min(box1[3], box2[3])
        y2 == Min(box1[4], box2[4])
        intersection_area == (x2 - x1) * (y2 - y1)
        box1_area == (box1[3] - box1[1]) * (box1[4] - box1[2])
        box2_area == (box2[3] - box2[1]) * (box2[4] - box2[2])
        union_area == box1_area + box2_area - intersection_area
    IN  IF union_area > 0 THEN <<intersection_area, union_area>>
        ELSE <<0, 1>>

\* Mutant of calculate_iou: the union is the sum of the two areas, the intersection counted twice
calculate_iou_sum_union(box1, box2) ==
    LET x1 == Max(box1[1], box2[1])
        y1 == Max(box1[2], box2[2])
        x2 == Min(box1[3], box2[3])
        y2 == Min(box1[4], box2[4])
        intersection_area == (x2 - x1) * (y2 - y1)
        box1_area == (box1[3] - box1[1]) * (box1[4] - box1[2])
        box2_area == (box2[3] - box2[1]) * (box2[4] - box2[2])
        union_area == box1_area + box2_area
    IN  IF x2 < x1 \/ y2 < y1 THEN <<0, 1>>
        ELSE IF union_area > 0 THEN <<intersection_area, union_area>>
        ELSE <<0, 1>>

\* Mutant of calculate_iou: the division is not guarded by union_area > 0 (line 35)
calculate_iou_unguarded(box1, box2) ==
    LET x1 == Max(box1[1], box2[1])
        y1 == Max(box1[2], box2[2])
        x2 == Min(box1[3], box2[3])
        y2 == Min(box1[4], box2[4])
        intersection_area == (x2 - x1) * (y2 - y1)
        box1_area == (box1[3] - box1[1]) * (box1[4] - box1[2])
        box2_area == (box2[3] - box2[1]) * (box2[4] - box2[2])
        union_area == box1_area + box2_area - intersection_area
    IN  IF x2 < x1 \/ y2 < y1 THEN <<0, 1>>
        ELSE <<intersection_area, union_area>>

\* calculate_iou(box1, box2), boxes as <<x1, y1, x2, y2>>
calculate_iou(box1, box2) ==
    LET x1 == Max(box1[1], box2[1])
        y1 == Max(box1[2], box2[2])
        x2 == Min(box1[3], box2[3])
        y2 == Min(box1[4], box2[4])
        intersection_area == (x2 - x1) * (y2 - y1)
        box1_area == (box1[3] - box1[1]) * (box1[4] - box1[2])
        box2_area == (box2[3] - box2[1]) * (box2[4] - box2[2])
        union_area == box1_area + box2_area - intersection_area
    IN  IF x2 < x1 \/ y2 < y1 THEN <<0, 1>>
        ELSE IF union_area > 0 THEN <<intersection_area, union_area>>
        ELSE <<0, 1>>

\* Mutant of IouGeq: an exclusive comparison, iou > iou_threshold
IouGt(iou, t) == iou[1] * t[2] > t[1] * iou[2]

\* Mutant of IouGeq: the comparison is turned round, iou <= iou_threshold
IouLeq(iou, t) == iou[1] * t[2] <= t[1] * iou[2]

\* iou >= iou_threshold on fractions (denominators are positive)
IouGeq(iou, t) == iou[1] * t[2] >= t[1] * iou[2]

\* Mutant of match_images_by_filename: an image of coco1 without counterpart
\* is entered too, under its own id
match_images_by_filename_unguarded(c1, c2) ==
    LET coco2_filename_to_id == DictOf(c2.images, "file_name", "id")
    IN  [id \in {c1.images[i].id : i \in Idx(c1.images)} |->
            LET last == c1.images[SetMax({i \in Idx(c1.images) : c1.images[i].id = id})]
            IN  IF last.file_name \in DOMAIN coco2_filename_to_id
                THEN coco2_filename_to_id[last.file_name] ELSE id]

\* match_images_by_filename(coco1, coco2)
match_images_by_filename(c1, c2) ==
    LET coco2_filename_to_id == DictOf(c2.images, "file_name", "id")
        matched == {i \in Idx(c1.images) :
                       c1.images[i].file_name \in DOMAIN coco2_filename_to_id}
    IN  [id \in {c1.images[i].id : i \in matched} |->
            coco2_filename_to_id[
                c1.images[SetMax({i \in matched : c1.images[i].id = id})].file_name]]

\* Mutant of create_category_mapping: the ids of collection 1 are taken to
\* be the ids of collection 2, names unread
create_category_mapping_by_id(c1, c2) ==
    [id \in {c1.categories[i].id : i \in Idx(c1.categories)} |-> id]

\* create_category_mapping(coco1, coco2)
create_category_mapping(c1, c2) ==
    LET coco2_name_to_id == DictOf(c2.categories, "name", "id")
        matched == {i \in Idx(c1.categories) :
                       c1.categories[i].name \in DOMAIN coco2_name_to_id}
    IN  [id \in {c1.categories[i].id : i \in matched} |->
            coco2_name_to_id[
                c1.categories[SetMax({i \in matched : c1.categories[i].id = id})].name]]

\* [x, y, width, height] -> [x1, y1, x2, y2]
CornerForm(bbox) == <<bbox[1], bbox[2], bbox[1] + bbox[3], bbox[2] + bbox[4]>>

\* Mutant of coco2_image_to_anns: every image is given all annotations
coco2_image_to_anns_ungrouped(c2) ==
    [image_id \in {c2.annotations[j].image_id : j \in Idx(c2.annotations)} |->
        c2.annotations]

\* coco2_image_to_anns: image_id -> the annotations of coco2 with that
\* image_id, in input order
coco2_image_to_anns(c2) ==
    [image_id \in {c2.annotations[j].image_id : j \in Idx(c2.annotations)} |->
        SelectSeq(c2.annotations, LAMBDA ann : ann.image_id = image_id)]

\* One candidate pair (ann1, ann2) of the inner loop, lines 140-175:
\* "raise" (KeyError), "append" (a mismatch) or "skip"
PairStep(ann2, box1, t, expected_coco2_category_id) ==
    IF ann2.bbox = <<>> THEN "raise"
    ELSE LET iou == calculate_iou(box1, CornerForm(ann2.bbox))
         IN  IF ~IouGeq(iou, t) THEN "skip"
             ELSE IF ann2.category_id = NoKey THEN "raise"
             ELSE IF ann2.category_id # expected_coco2_category_id THEN "append"
             ELSE "skip"

\* The first image of coco1 with the id (lines 153-157)
ImageFilename(c1, coco1_image_id) ==
    c1.images[CHOOSE i \in Idx(c1.images) :
                 /\ c1.images[i].id = coco1_image_id
                 /\ \A k \in 1..(i - 1) : c1.images[k].id # coco1_image_id].file_name

\* Mutant of Coco2CategoryName: coco2_categories.get(coco2_category_id),
\* without the default
Coco2CategoryName_NoDefault(c2, coco2_category_id) ==
    LET coco2_categories == DictOf(c2.categories, "id", "name")
    IN  IF coco2_category_id \in DOMAIN coco2_categories
        THEN coco2_categories[coco2_category_id] ELSE "None"

\* coco2_categories.get(coco2_category_id, "Unknown")
Coco2CategoryName(c2, coco2_category_id) ==
    LET coco2_categories == DictOf(c2.categories, "id", "name")
    IN  IF coco2_category_id \in DOMAIN coco2_categories
        THEN coco2_categories[coco2_category_id] ELSE "Unknown"

\* Mutant of MismatchRecord: image_id is the id of the image in coco2
MismatchRecord_Coco2ImageId(c1, c2, ann1, ann2) ==
    LET box1 == CornerForm(ann1.bbox)
        box2 == CornerForm(ann2.bbox)
    IN  [image_id       |-> ann2.image_id,
         image_filename |-> ImageFilename(c1, ann1.image_id),
         box1           |-> box1,
         box2           |-> box2,
         iou            |-> calculate_iou(box1, box2),
         coco1_category |-> DictOf(c1.categories, "id", "name")[ann1.category_id],
         coco2_category |-> Coco2CategoryName(c2, ann2.category_id),
         ann1           |-> ann1,
         ann2           |-> ann2]

\* The record appended at lines 163-175
MismatchRecord(c1, c2, ann1, ann2) ==
    LET box1 == CornerForm(ann1.bbox)
        box2 == CornerForm(ann2.bbox)
    IN  [image_id       |-> ann1.image_id,
         image_filename |-> ImageFilename(c1, ann1.image_id),
         box1           |-> box1,
         box2           |-> box2,
         iou            |-> calculate_iou(box1, box2),
         coco1_category |-> DictOf(c1.categories, "id", "name")[ann1.category_id],
         coco2_category |-> Coco2CategoryName(c2, ann2.category_id),
         ann1           |-> ann1,
         ann2           |-> ann2]

\* The inner loop (lines 140-175) from position j of anns2, appending to acc
RECURSIVE InnerLoop(_, _, _, _, _, _, _, _)
InnerLoop(c1, c2, t, ann1, expected, anns2, j, acc) ==
    IF j > Len(anns2) THEN [raised |-> FALSE, out |-> acc]
    ELSE LET step == PairStep(anns2[j], CornerForm(ann1.bbox), t, expected)
         IN  IF step = "raise" THEN [raised |-> TRUE, out |-> acc]
             ELSE InnerLoop(c1, c2, t, ann1, expected, anns2, j + 1,
                     IF step = "append"
                     THEN Append(acc, MismatchRecord(c1, c2, ann1, anns2[j]))
                     ELSE acc)

\* Mutant of OuterStep: no test that the image is in image_id_mapping, the
\* lookup raises KeyError
OuterStep_NoImageTest(c1, c2, ann1) ==
    LET image_id_mapping == match_images_by_filename(c1, c2)
        category_id_mapping == create_category_mapping(c1, c2)
        coco1_categories == DictOf(c1.categories, "id", "name")
        index == coco2_image_to_anns(c2)
    IN  IF ann1.image_id = NoKey THEN "raise"
        ELSE IF ann1.image_id \notin DOMAIN image_id_mapping THEN "raise"
        ELSE IF image_id_mapping[ann1.image_id] \notin DOMAIN index THEN "continue"
        ELSE IF ann1.category_id = NoKey THEN "raise"
        ELSE IF ann1.category_id \notin DOMAIN coco1_categories THEN "continue"
        ELSE IF ann1.category_id \notin DOMAIN category_id_mapping THEN "continue"
        ELSE IF ann1.bbox = <<>> THEN "raise"
        ELSE "scan"

\* Mutant of OuterStep: no test that the category is in coco1_categories,
\* the name lookup raises KeyError
OuterStep_NoCategoryTest(c1, c2, ann1) ==
    LET image_id_mapping == match_images_by_filename(c1, c2)
        category_id_mapping == create_category_mapping(c1, c2)
        coco1_categories == DictOf(c1.categories, "id", "name")
        index == coco2_image_to_anns(c2)
    IN  IF ann1.image_id = NoKey THEN "raise"
        ELSE IF ann1.image_id \notin DOMAIN image_id_mapping THEN "continue"
        ELSE IF image_id_mapping[ann1.image_id] \notin DOMAIN index THEN "continue"
        ELSE IF ann1.category_id = NoKey THEN "raise"
        ELSE IF ann1.category_id \notin DOMAIN coco1_categories THEN "raise"
        ELSE IF ann1.category_id \notin DOMAIN category_id_mapping THEN "continue"
        ELSE IF ann1.bbox = <<>> THEN "raise"
        ELSE "scan"

\* What one iteration of the outer loop does before its inner loop
\* (lines 112-137): "raise", "continue" or "scan"
OuterStep(c1, c2, ann1) ==
    LET image_id_mapping == match_images_by_filename(c1, c2)
        category_id_mapping == create_category_mapping(c1, c2)
        coco1_categories == DictOf(c1.categories, "id", "name")
        index == coco2_image_to_anns(c2)
    IN  IF ann1.image_id = NoKey THEN "raise"
        ELSE IF ann1.image_id \notin DOMAIN image_id_mapping THEN "continue"
        ELSE IF image_id_mapping[ann1.image_id] \notin DOMAIN index THEN "continue"
        ELSE IF ann1.category_id = NoKey THEN "raise"
        ELSE IF ann1.category_id \notin DOMAIN coco1_categories THEN "continue"
        ELSE IF ann1.category_id \notin DOMAIN category_id_mapping THEN "continue"
        ELSE IF ann1.bbox = <<>> THEN "raise"
        ELSE "scan"

\* The outer loop (lines 111-175) from position i of coco1's annotations
RECURSIVE OuterLoop(_, _, _, _, _)
OuterLoop(c1, c2, t, i, acc) ==
    IF i > Len(c1.annotations) THEN [raised |-> FALSE, out |-> acc]
    ELSE LET ann1 == c1.annotations[i]
             step == OuterStep(c1, c2, ann1)
         IN  IF step = "raise" THEN [raised |-> TRUE, out |-> acc]
             ELSE IF step = "continue" THEN OuterLoop(c1, c2, t, i + 1, acc)
             ELSE LET inner ==
                         InnerLoop(c1, c2, t, ann1,
                             create_category_mapping(c1, c2)[ann1.category_id],
                             coco2_image_to_anns(c2)[
                                 match_images_by_filename(c1, c2)[ann1.image_id]],
                             1, acc)
                  IN  IF inner.raised THEN inner
                      ELSE OuterLoop(c1, c2, t, i + 1, inner.out)

\* compare_coco_annotations(coco1, coco2, iou_threshold): the index loop
\* (lines 102-106) reads image_id of every annotation of coco2
compare_coco_annotations(c1, c2, t) ==
    IF \E j \in Idx(c2.annotations) : c2.annotations[j].image_id = NoKey
    THEN [raised |-> TRUE, out |-> <<>>]
    ELSE OuterLoop(c1, c2, t, 1, <<>>)

----------------------------------------------------------------------------
(* Inputs of the comparison *)

MaxImages == 2
MaxCategories == 2
MaxAnns == 2

FileNameOrder == <<"a.jpg", "b.jpg">>
CatNameOrder == <<"cat", "dog">>
Range(seq) == {seq[i] : i \in Idx(seq)}

SeqsUpTo(S, n) == UNION {[1..k -> S] : k \in 0..n}
NoRepeat(seq) == \A i, j \in Idx(seq) : i # j => seq[i] # seq[j]
UniqueSeqsUpTo(S, n) == {seq \in SeqsUpTo(S, n) : NoRepeat(seq)}
Prefixes(order, n) == {SubSeq(order, 1, k) : k \in 0..Min(n, Len(order))}

\* Image and category lists whose ids are the positions.  Names are unique
\* within a list.  Collection 1 takes a prefix of the name order (any other
\* list is a renaming of one of these); collection 2 takes any list, so the
\* same name can carry different ids in the two collections.
ImageList(names) == [i \in Idx(names) |-> [id |-> i, file_name |-> names[i]]]
CategoryList(names) == [i \in Idx(names) |-> [id |-> i, name |-> names[i]]]
ImageLists1 == {ImageList(n) : n \in Prefixes(FileNameOrder, MaxImages)}
ImageLists2 == {ImageList(n) : n \in UniqueSeqsUpTo(Range(FileNameOrder), MaxImages)}
CategoryLists1 == {CategoryList(n) : n \in Prefixes(CatNameOrder, MaxCategories)}
CategoryLists2 ==
    {CategoryList(n) : n \in UniqueSeqsUpTo(Range(CatNameOrder), MaxCategories)}

\* bbox values [x, y, width, height]: corner-form IoU of the first with
\* itself is 4/4 and with the second 2/4
BBoxes1 == {<<0, 0, 2, 2>>}
BBoxes2 == {<<0, 0, 2, 2>>, <<0, 0, 2, 1>>}
Thresholds == {<<1, 2>>, <<1, 1>>}

\* Annotation records; image_id and category_id may name an image or a
\* category the collection does not have
AnnRecords(boxes) ==
    [image_id : 1..MaxImages, category_id : 1..MaxCategories, bbox : boxes]

EmptyCollection == [images |-> <<>>, categories |-> <<>>, annotations |-> <<>>]
NoError == [kind |-> "none", name |-> "", id1 |-> 0, id2 |-> 0]

\* No stand-alone call of the matchers or of calculate_iou is under way
FunctionsIdle ==
    /\ ret_image_id_mapping = <<>> /\ ret_category_id_mapping = <<>>
    /\ match_pc = "idle"
    /\ arg_box1 = <<0, 0, 0, 0>> /\ arg_box2 = <<0, 0, 0, 0>>
    /\ ret_iou = <<0, 1>>
    /\ iou_pc = "idle"

\* None of st.session_state
SessionNone == <<>>

\* What ui_run holds before any page has run
NoRun == [page |-> "app", button |-> "", message |-> ""]

\* A fresh browser session: no page script has run yet
SessionIdle ==
    /\ clock = 0
    /\ task_path = SessionNone /\ merged_task_path = SessionNone
    /\ now = SessionNone
    /\ s3_uri = ""
    /\ annotation_file = <<>>
    /\ coco_data = SessionNone
    /\ category_options = <<>>
    /\ selected_cats_to_remove = {}
    /\ disk = {}
    /\ s3_call = <<>>
    /\ ui_run = NoRun

\* combine is not running
MergeIdle ==
    /\ tt1 = EmptyCollection /\ tt2 = EmptyCollection
    /\ d1 = EmptyCollection /\ d2 = EmptyCollection
    /\ b1 = <<>> /\ b2 = <<>>
    /\ mrg_pc = "idle"
    /\ mrg_err = NoError
    /\ output_file = <<>>

InitCompare ==
    /\ coco1 \in [images : ImageLists1, categories : CategoryLists1,
                  annotations : SeqsUpTo(AnnRecords(BBoxes1), MaxAnns)]
    /\ coco2 \in [images : ImageLists2, categories : CategoryLists2,
                  annotations : SeqsUpTo(AnnRecords(BBoxes2), MaxAnns)]
    /\ iou_threshold \in Thresholds
    /\ cmp_pc = "ready"
    /\ mismatches = <<>>
    /\ MergeIdle
    /\ FunctionsIdle
    /\ SessionIdle

\* Records that lack exactly one of the keys the comparison reads
MalformedAnnRecords(boxes) ==
    [image_id : {NoKey}, category_id : 1..MaxCategories, bbox : boxes]
    \cup [image_id : 1..MaxImages, category_id : {NoKey}, bbox : boxes]
    \cup [image_id : 1..MaxImages, category_id : 1..MaxCategories, bbox : {<<>>}]

\* Collections with the same images and categories whose annotation records
\* may be malformed
InitCompareMalformed ==
    /\ coco1 \in [images : {ImageList(FileNameOrder)},
                  categories : {CategoryList(CatNameOrder)},
                  annotations : SeqsUpTo(AnnRecords(BBoxes1)
                                    \cup MalformedAnnRecords(BBoxes1), MaxAnns)]
    /\ coco2 \in [images : {ImageList(FileNameOrder)},
                  categories : {CategoryList(CatNameOrder)},
                  annotations : SeqsUpTo(AnnRecords(BBoxes2)
                                    \cup MalformedAnnRecords(BBoxes2), MaxAnns)]
    /\ iou_threshold \in Thresholds
    /\ cmp_pc = "ready"
    /\ mismatches = <<>>
    /\ MergeIdle
    /\ FunctionsIdle
    /\ SessionIdle

\* Mutant of CompareCall: the id of the corresponding image of coco2 is
\* written back into the annotation record of coco1
CompareCall_ImageIdInPlace ==
    /\ cmp_pc = "ready"
    /\ LET r == compare_coco_annotations(coco1, coco2, iou_threshold)
       IN  /\ cmp_pc' = IF r.raised THEN "raised" ELSE "returned"
           /\ mismatches' = IF r.raised THEN <<>> ELSE r.out
    /\ coco1' = [coco1 EXCEPT !.annotations =
                     [i \in Idx(coco1.annotations) |->
                         LET image_id_mapping == match_images_by_filename(coco1, coco2)
                         IN  [coco1.annotations[i] EXCEPT !.image_id =
                                 IF @ \in DOMAIN image_id_mapping
                                 THEN image_id_mapping[@] ELSE @]]]
    /\ UNCHANGED <<coco2, iou_threshold>>
    /\ UNCHANGED mrg_vars
    /\ UNCHANGED fn_vars
    /\ UNCHANGED ui_vars

\* mismatches = compare_coco_annotations(coco1_data, coco2_data, iou_threshold)
CompareCall ==
    /\ cmp_pc = "ready"
    /\ LET r == compare_coco_annotations(coco1, coco2, iou_threshold)
       IN  /\ cmp_pc' = IF r.raised THEN "raised" ELSE "returned"
           /\ mismatches' = IF r.raised THEN <<>> ELSE r.out
    /\ UNCHANGED <<coco1, coco2, iou_threshold>>
    /\ UNCHANGED mrg_vars
    /\ UNCHANGED fn_vars
    /\ UNCHANGED ui_vars

NextCompare == CompareCall

SpecCompare == InitCompare /\ [][NextCompare]_vars
SpecCompareMalformed == InitCompareMalformed /\ [][NextCompare]_vars

----------------------------------------------------------------------------
(* Properties of compare_coco_annotations, stated from the two collections *)
(* and the returned list                                                   *)

\* ann1's image has a counterpart: an image of c1 with ann1's image_id whose
\* file name is the file name of an image of c2
HasImageCounterpart(c1, c2, ann1) ==
    \E i \in Idx(c1.images), k \in Idx(c2.images) :
        /\ c1.images[i].id = ann1.image_id
        /\ c2.images[k].file_name = c1.images[i].file_name

\* The ids of the images of c2 that correspond to ann1's image
CounterpartImageIds(c1, c2, ann1) ==
    {c2.images[k].id : k \in {k \in Idx(c2.images) :
        \E i \in Idx(c1.images) :
            /\ c1.images[i].id = ann1.image_id
            /\ c2.images[k].file_name = c1.images[i].file_name}}

\* The ids of the categories of c2 that carry the name of ann1's category
CounterpartCategoryIds(c1, c2, ann1) ==
    {c2.categories[k].id : k \in {k \in Idx(c2.categories) :
        \E i \in Idx(c1.categories) :
            /\ c1.categories[i].id = ann1.category_id
            /\ c2.categories[k].name = c1.categories[i].name}}

IouOf(ann1, ann2) == calculate_iou(CornerForm(ann1.bbox), CornerForm(ann2.bbox))

\* (ann1, ann2) is a candidate: ann2 sits on the image that corresponds to
\* ann1's, and ann1's category has a counterpart that ann2 does not carry
DisagreeingCandidates(c1, c2, ann1, ann2) ==
    /\ ann2.image_id \in CounterpartImageIds(c1, c2, ann1)
    /\ CounterpartCategoryIds(c1, c2, ann1) # {}
    /\ ann2.category_id \notin CounterpartCategoryIds(c1, c2, ann1)

Qualifies(c1, c2, t, ann1, ann2) ==
    /\ DisagreeingCandidates(c1, c2, ann1, ann2)
    /\ IouOf(ann1, ann2)[1] * t[2] >= t[1] * IouOf(ann1, ann2)[2]

\* All pairs (ann1, ann2), c1's annotations first and c2's within them
AllPairs(c1, c2) ==
    LET n2 == Len(c2.annotations)
    IN  [k \in 1..(Len(c1.annotations) * n2) |->
            <<c1.annotations[((k - 1) \div n2) + 1],
              c2.annotations[((k - 1) % n2) + 1]>>]

ExpectedPairs(c1, c2, t) ==
    SelectSeq(AllPairs(c1, c2), LAMBDA pr : Qualifies(c1, c2, t, pr[1], pr[2]))

ReportedPairs == [k \in Idx(mismatches) |-> <<mismatches[k].ann1, mismatches[k].ann2>>]

Reported(ann1, ann2) == \E k \in Idx(mismatches) : ReportedPairs[k] = <<ann1, ann2>>

\* C1: the call returns exactly the qualifying pairs (corresponding image,
\* category with a counterpart, IoU >= threshold, ann2's category not the
\* expected one), in the order of collection 1's annotations and, under one
\* of them, of collection 2's; every qualifying pair once, all of them kept.
C1_ExactMismatchList ==
    cmp_pc # "ready" =>
        /\ cmp_pc = "returned"
        /\ ReportedPairs = ExpectedPairs(coco1, coco2, iou_threshold)

\* C1 witness: two annotations on each side; the second annotation of
\* collection 1 is reported with both annotations of collection 2, in
\* their order, and the first one with none
C1_Witness ==
    /\ cmp_pc = "returned"
    /\ Len(coco1.annotations) = 2 /\ Len(coco2.annotations) = 2
    /\ coco1.annotations[1] # coco1.annotations[2]
    /\ coco2.annotations[1] # coco2.annotations[2]
    /\ ReportedPairs = <<<<coco1.annotations[2], coco2.annotations[1]>>,
                         <<coco1.annotations[2], coco2.annotations[2]>>>>

\* C2: the threshold is inclusive: a disagreeing candidate pair whose IoU
\* equals the threshold is reported, one whose IoU is below it is not.
C2_ThresholdInclusive ==
    cmp_pc # "ready" =>
        \A i \in Idx(coco1.annotations), j \in Idx(coco2.annotations) :
            LET ann1 == coco1.annotations[i]
                ann2 == coco2.annotations[j]
                iou == IouOf(ann1, ann2)
            IN  /\ (/\ DisagreeingCandidates(coco1, coco2, ann1, ann2)
                    /\ iou[1] * iou_threshold[2] = iou_threshold[1] * iou[2])
                        => Reported(ann1, ann2)
                /\ iou[1] * iou_threshold[2] < iou_threshold[1] * iou[2]
                        => ~Reported(ann1, ann2)

\* C2 witness: a disagreeing candidate pair exactly at the threshold,
\* reported, beside one just below it, not reported
C2_Witness ==
    /\ cmp_pc = "returned"
    /\ \E i \in Idx(coco1.annotations), j, k \in Idx(coco2.annotations) :
        LET ann1 == coco1.annotations[i]
            at == coco2.annotations[j]
            below == coco2.annotations[k]
        IN  /\ DisagreeingCandidates(coco1, coco2, ann1, at)
            /\ DisagreeingCandidates(coco1, coco2, ann1, below)
            /\ IouOf(ann1, at)[1] * iou_threshold[2]
                   = iou_threshold[1] * IouOf(ann1, at)[2]
            /\ IouOf(ann1, below)[1] * iou_threshold[2]
                   < iou_threshold[1] * IouOf(ann1, below)[2]
            /\ Reported(ann1, at)
            /\ ~Reported(ann1, below)

\* C3: no reported ann2 carries a category of collection 2 that has the name
\* of ann1's category, whatever the ids are.
C3_SameCategoryExcluded ==
    cmp_pc # "ready" =>
        \A k \in Idx(mismatches) :
            \A p \in Idx(coco1.categories), q \in Idx(coco2.categories) :
                (/\ coco1.categories[p].id = mismatches[k].ann1.category_id
                 /\ coco2.categories[q].name = coco1.categories[p].name)
                    => mismatches[k].ann2.category_id # coco2.categories[q].id

\* C3 witness: a pair on corresponding images with IoU >= threshold whose
\* categories have the same name under different ids, beside a reported pair
C3_Witness ==
    /\ cmp_pc = "returned"
    /\ mismatches # <<>>
    /\ \E i \in Idx(coco1.annotations), j \in Idx(coco2.annotations) :
        LET ann1 == coco1.annotations[i]
            ann2 == coco2.annotations[j]
        IN  /\ ann2.image_id \in CounterpartImageIds(coco1, coco2, ann1)
            /\ ann2.category_id \in CounterpartCategoryIds(coco1, coco2, ann1)
            /\ ann2.category_id # ann1.category_id
            /\ IouGeq(IouOf(ann1, ann2), iou_threshold)
            /\ ~Reported(ann1, ann2)

\* ann1 has nothing to be compared with: no image counterpart, no category
\* counterpart, or no annotation on the corresponding image
NoCorrespondence(c1, c2, ann1) ==
    \/ ~HasImageCounterpart(c1, c2, ann1)
    \/ CounterpartCategoryIds(c1, c2, ann1) = {}
    \/ \A j \in Idx(c2.annotations) :
           c2.annotations[j].image_id \notin CounterpartImageIds(c1, c2, ann1)

\* C4: an annotation of collection 1 without image counterpart, without
\* category counterpart or whose corresponding image has no annotation
\* contributes no mismatch, and the call does not raise.
C4_NoCorrespondenceSkipped ==
    cmp_pc # "ready" =>
        /\ cmp_pc = "returned"
        /\ \A i \in Idx(coco1.annotations) :
               NoCorrespondence(coco1, coco2, coco1.annotations[i])
                   => \A k \in Idx(mismatches) :
                          mismatches[k].ann1 # coco1.annotations[i]

\* C4 witness: the first annotation has no counterpart image, the pass goes
\* on and the second one is reported
C4_Witness ==
    /\ cmp_pc = "returned"
    /\ Len(coco1.annotations) = 2
    /\ ~HasImageCounterpart(coco1, coco2, coco1.annotations[1])
    /\ mismatches # <<>>
    /\ mismatches[1].ann1 = coco1.annotations[2]

\* The well-formed records of a list
WellFormedAnn(ann) == ann.image_id # NoKey /\ ann.category_id # NoKey /\ ann.bbox # <<>>
WellFormedOnly(c) ==
    [c EXCEPT !.annotations = SelectSeq(c.annotations, WellFormedAnn)]

\* C5: a record that lacks bbox, category_id or image_id is skipped on its
\* own: the call returns, with the mismatches among the well-formed records.
C5_MalformedSkipped ==
    cmp_pc # "ready" =>
        /\ cmp_pc = "returned"
        /\ ReportedPairs = ExpectedPairs(WellFormedOnly(coco1),
                               WellFormedOnly(coco2), iou_threshold)

\* C6: on well-formed collections the call runs to its end and returns a
\* list (possibly empty) of pairs of the collections' records; it never
\* raises.
C6_AlwaysReturns ==
    /\ cmp_pc \in {"ready", "returned"}
    /\ cmp_pc = "ready" =>
           ~compare_coco_annotations(coco1, coco2, iou_threshold).raised
    /\ cmp_pc = "returned" =>
           \A k \in Idx(mismatches) :
               /\ mismatches[k].ann1 \in Range(coco1.annotations)
               /\ mismatches[k].ann2 \in Range(coco2.annotations)

\* C6 witness: the call has returned the empty list for an empty second
\* collection and a first one whose annotation names an image and a
\* category it does not have
C6_Witness ==
    /\ cmp_pc = "returned"
    /\ mismatches = <<>>
    /\ coco2.images = <<>> /\ coco2.categories = <<>> /\ coco2.annotations = <<>>
    /\ \E i \in Idx(coco1.annotations) :
        /\ \A k \in Idx(coco1.images) : coco1.images[k].id # coco1.annotations[i].image_id
        /\ \A k \in Idx(coco1.categories) :
               coco1.categories[k].id # coco1.annotations[i].category_id

----------------------------------------------------------------------------
(* src/tools/merge_only_coco.py: combine(tt1, tt2, output_file)            *)

\* Mutant of IndexDict: the positions are counted from 1
IndexDict_FromOne(seq, k) ==
    [key \in {seq[i][k] : i \in Idx(seq)} |->
        SetMax({i \in Idx(seq) : seq[i][k] = key})]

\* {rec[k]: idx for idx, rec in enumerate(seq)}: 0-based, the last record
\* with a key decides
IndexDict(seq, k) ==
    [key \in {seq[i][k] : i \in Idx(seq)} |->
        SetMax({i \in Idx(seq) : seq[i][k] = key}) - 1]

\* max(b.values())
MaxValue(b) == SetMax({b[key] : key \in DOMAIN b})

\* Mutant of OffsetIndexDict: file 2 is numbered from 0 like file 1
OffsetIndexDict_FromZero(seq, k, b) == IndexDict(seq, k)

\* {rec[k]: idx + max(b.values()) + 1 for idx, rec in enumerate(seq)}
\* (lines 104, 113-116), for a non-empty b
OffsetIndexDict(seq, k, b) ==
    [key \in DOMAIN IndexDict(seq, k) |-> IndexDict(seq, k)[key] + MaxValue(b) + 1]

\* Mutant of RemoveDuplicateFilenames: the annotations of the duplicate
\* images are removed, the images themselves are kept
RemoveDuplicateFilenames_KeepImages(c1, c2) ==
    LET duplicates == {c1.images[i].file_name : i \in Idx(c1.images)}
                          \cap {c2.images[i].file_name : i \in Idx(c2.images)}
        removed_image_ids ==
            {c2.images[i].id : i \in {i \in Idx(c2.images) :
                                         c2.images[i].file_name \in duplicates}}
    IN  [c2 EXCEPT
            !.annotations = SelectSeq(c2.annotations,
                                LAMBDA ann : ann.image_id \notin removed_image_ids)]

\* Lines 50-69: images of d2 whose file name is in d1 are removed, with the
\* annotations of d2 that carry the id of a removed image
RemoveDuplicateFilenames(c1, c2) ==
    LET duplicates == {c1.images[i].file_name : i \in Idx(c1.images)}
                          \cap {c2.images[i].file_name : i \in Idx(c2.images)}
        removed_image_ids ==
            {c2.images[i].id : i \in {i \in Idx(c2.images) :
                                         c2.images[i].file_name \in duplicates}}
    IN  IF duplicates = {} THEN c2
        ELSE [c2 EXCEPT
                 !.images = SelectSeq(c2.images,
                                LAMBDA img : img.file_name \notin duplicates),
                 !.annotations = SelectSeq(c2.annotations,
                                LAMBDA ann : ann.image_id \notin removed_image_ids)]

\* Mutant of CategoryCheck: only the names of file 1 are tested
CategoryCheck_File1Only(c1, c2) ==
    LET d1_categories == DictOf(c1.categories, "name", "id")
        d2_categories == DictOf(c2.categories, "name", "id")
        bad1 == {i \in Idx(c1.categories) :
                    \/ c1.categories[i].name \notin DOMAIN d2_categories
                    \/ d1_categories[c1.categories[i].name]
                           # d2_categories[c1.categories[i].name]}
        name == c1.categories[CHOOSE i \in bad1 : \A k \in bad1 : i <= k].name
    IN  IF bad1 = {} THEN NoError
        ELSE IF name \in DOMAIN d2_categories
        THEN [kind |-> "id_differs", name |-> name,
              id1 |-> d1_categories[name], id2 |-> d2_categories[name]]
        ELSE [kind |-> "not_in_file_2", name |-> name, id1 |-> 0, id2 |-> 0]

\* Mutant of CategoryCheck: the two "does not exist" messages name the wrong
\* file
CategoryCheck_SidesSwapped(c1, c2) ==
    LET d1_categories == DictOf(c1.categories, "name", "id")
        d2_categories == DictOf(c2.categories, "name", "id")
        Bad(c, mine, other) ==
            {i \in Idx(c.categories) :
                \/ c.categories[i].name \notin DOMAIN other
                \/ mine[c.categories[i].name] # other[c.categories[i].name]}
        bad1 == Bad(c1, d1_categories, d2_categories)
        bad2 == Bad(c2, d2_categories, d1_categories)
        Raised(c, bad, missing) ==
            LET name == c.categories[CHOOSE i \in bad : \A k \in bad : i <= k].name
            IN  IF name \in DOMAIN d1_categories /\ name \in DOMAIN d2_categories
                THEN [kind |-> "id_differs", name |-> name,
                      id1 |-> d1_categories[name], id2 |-> d2_categories[name]]
                ELSE [kind |-> missing, name |-> name, id1 |-> 0, id2 |-> 0]
    IN  IF bad1 # {} THEN Raised(c1, bad1, "not_in_file_1")
        ELSE IF bad2 # {} THEN Raised(c2, bad2, "not_in_file_2")
        ELSE NoError

\* Lines 71-99: the AssertionError the category check raises, or NoError.
\* The names of file 1 are tested first, in list order, then those of file 2.
CategoryCheck(c1, c2) ==
    LET d1_categories == DictOf(c1.categories, "name", "id")
        d2_categories == DictOf(c2.categories, "name", "id")
        Bad(c, mine, other) ==
            {i \in Idx(c.categories) :
                \/ c.categories[i].name \notin DOMAIN other
                \/ mine[c.categories[i].name] # other[c.categories[i].name]}
        bad1 == Bad(c1, d1_categories, d2_categories)
        bad2 == Bad(c2, d2_categories, d1_categories)
        Raised(c, bad, missing) ==
            LET name == c.categories[CHOOSE i \in bad : \A k \in bad : i <= k].name
            IN  IF name \in DOMAIN d1_categories /\ name \in DOMAIN d2_categories
                THEN [kind |-> "id_differs", name |-> name,
                      id1 |-> d1_categories[name], id2 |-> d2_categories[name]]
                ELSE [kind |-> missing, name |-> name, id1 |-> 0, id2 |-> 0]
    IN  IF bad1 # {} THEN Raised(c1, bad1, "not_in_file_2")
        ELSE IF bad2 # {} THEN Raised(c2, bad2, "not_in_file_1")
        ELSE NoError

\* Lines 106-109: img["id"] = b[img["id"]]
RewriteImageIds(images, b) ==
    [i \in Idx(images) |-> [images[i] EXCEPT !.id = b[images[i].id]]]

\* Lines 118-123: ann["id"] = b_ann[ann["id"]]; ann["image_id"] =
\* b_img[ann["image_id"]], list order, up to the first annotation whose
\* image_id is no key of b_img: there the id is rewritten and KeyError raised
FirstDangling(anns, b_img) ==
    IF \A i \in Idx(anns) : anns[i].image_id \in DOMAIN b_img THEN 0
    ELSE CHOOSE i \in Idx(anns) :
            /\ anns[i].image_id \notin DOMAIN b_img
            /\ \A k \in 1..(i - 1) : anns[k].image_id \in DOMAIN b_img

\* Mutant of RewriteAnnotationIds: the id is renumbered, image_id is left as
\* it was
RewriteAnnotationIds_KeepImageId(anns, b_ann, b_img) ==
    LET stop == FirstDangling(anns, b_img)
    IN  [i \in Idx(anns) |->
            IF stop = 0 \/ i <= stop
            THEN [anns[i] EXCEPT !.id = b_ann[anns[i].id]]
            ELSE anns[i]]

RewriteAnnotationIds(anns, b_ann, b_img) ==
    LET stop == FirstDangling(anns, b_img)
    IN  [i \in Idx(anns) |->
            IF stop = 0 \/ i < stop
            THEN [anns[i] EXCEPT !.id = b_ann[anns[i].id],
                                 !.image_id = b_img[anns[i].image_id]]
            ELSE IF i = stop THEN [anns[i] EXCEPT !.id = b_ann[anns[i].id]]
            ELSE anns[i]]

\* Lines 45-48: json.load of the two files
LoadFiles ==
    /\ mrg_pc = "start"
    /\ d1' = tt1
    /\ d2' = tt2
    /\ mrg_pc' = "loaded"
    /\ UNCHANGED <<tt1, tt2, b1, b2, mrg_err, output_file>>
    /\ UNCHANGED cmp_vars
    /\ UNCHANGED fn_vars
    /\ UNCHANGED ui_vars

\* Lines 50-69
RemoveDuplicates ==
    /\ mrg_pc = "loaded"
    /\ d2' = RemoveDuplicateFilenames(d1, d2)
    /\ mrg_pc' = "deduplicated"
    /\ UNCHANGED <<tt1, tt2, d1, b1, b2, mrg_err, output_file>>
    /\ UNCHANGED cmp_vars
    /\ UNCHANGED fn_vars
    /\ UNCHANGED ui_vars

\* Mutant of CheckCategories: the image ids are reset (lines 101-109) above
\* the category check instead of below it
CheckCategories_AfterReset ==
    /\ mrg_pc = "deduplicated"
    /\ mrg_err' = CategoryCheck(d1, d2)
    /\ mrg_pc' = IF CategoryCheck(d1, d2) = NoError THEN "checked" ELSE "failed"
    /\ d1' = [d1 EXCEPT !.images =
                  RewriteImageIds(d1.images, IndexDict(d1.images, "id"))]
    /\ UNCHANGED <<tt1, tt2, d2, b1, b2, output_file>>
    /\ UNCHANGED cmp_vars
    /\ UNCHANGED fn_vars
    /\ UNCHANGED ui_vars

\* Lines 71-99
CheckCategories ==
    /\ mrg_pc = "deduplicated"
    /\ mrg_err' = CategoryCheck(d1, d2)
    /\ mrg_pc' = IF CategoryCheck(d1, d2) = NoError THEN "checked" ELSE "failed"
    /\ UNCHANGED <<tt1, tt2, d1, d2, b1, b2, output_file>>
    /\ UNCHANGED cmp_vars
    /\ UNCHANGED fn_vars
    /\ UNCHANGED ui_vars

\* Lines 101-109.  max(b1.values()) is evaluated once per image of d2: with
\* no image in d1 and one in d2 it raises ValueError
ResetImageIds ==
    /\ mrg_pc = "checked"
    /\ IF d1.images = <<>> /\ d2.images # <<>>
       THEN /\ mrg_pc' = "failed"
            /\ mrg_err' = [NoError EXCEPT !.kind = "ValueError"]
            /\ UNCHANGED <<d1, d2, b1, b2>>
       ELSE LET new_b1 == IndexDict(d1.images, "id")
                new_b2 == IF d2.images = <<>> THEN <<>>
                          ELSE OffsetIndexDict(d2.images, "id", new_b1)
            IN  /\ b1' = new_b1
                /\ b2' = new_b2
                /\ d1' = [d1 EXCEPT !.images = RewriteImageIds(d1.images, new_b1)]
                /\ d2' = [d2 EXCEPT !.images = RewriteImageIds(d2.images, new_b2)]
                /\ mrg_pc' = "images_reset"
                /\ UNCHANGED mrg_err
    /\ UNCHANGED <<tt1, tt2, output_file>>
    /\ UNCHANGED cmp_vars
    /\ UNCHANGED fn_vars
    /\ UNCHANGED ui_vars

\* Lines 111-123
ResetAnnotationIds ==
    /\ mrg_pc = "images_reset"
    /\ IF d1.annotations = <<>> /\ d2.annotations # <<>>
       THEN /\ mrg_pc' = "failed"
            /\ mrg_err' = [NoError EXCEPT !.kind = "ValueError"]
            /\ UNCHANGED <<d1, d2>>
       ELSE LET b3 == IndexDict(d1.annotations, "id")
                b4 == IF d2.annotations = <<>> THEN <<>>
                      ELSE OffsetIndexDict(d2.annotations, "id", b3)
                stop1 == FirstDangling(d1.annotations, b1)
                stop2 == FirstDangling(d2.annotations, b2)
            IN  /\ d1' = [d1 EXCEPT !.annotations =
                              RewriteAnnotationIds(d1.annotations, b3, b1)]
                /\ d2' = IF stop1 # 0 THEN d2
                         ELSE [d2 EXCEPT !.annotations =
                                  RewriteAnnotationIds(d2.annotations, b4, b2)]
                /\ mrg_pc' = IF stop1 = 0 /\ stop2 = 0
                             THEN "annotations_reset" ELSE "failed"
                /\ mrg_err' = IF stop1 = 0 /\ stop2 = 0 THEN mrg_err
                              ELSE [NoError EXCEPT !.kind = "KeyError"]
    /\ UNCHANGED <<tt1, tt2, b1, b2, output_file>>
    /\ UNCHANGED cmp_vars
    /\ UNCHANGED fn_vars
    /\ UNCHANGED ui_vars

\* Mutant of WriteCombined: the copy keeps file 1's category list
WriteCombined_File1Categories ==
    /\ mrg_pc = "annotations_reset"
    /\ d1' = [d1 EXCEPT !.images = d1.images \o d2.images,
                        !.annotations = d1.annotations \o d2.annotations]
    /\ output_file' = <<[images |-> d1.images \o d2.images,
                         annotations |-> d1.annotations \o d2.annotations,
                         categories |-> d1.categories]>>
    /\ mrg_pc' = "done"
    /\ UNCHANGED <<tt1, tt2, d2, b1, b2, mrg_err>>
    /\ UNCHANGED cmp_vars
    /\ UNCHANGED fn_vars
    /\ UNCHANGED ui_vars

\* Lines 125-133: combined is a shallow copy of d1, so the extended lists are
\* d1's own; categories is replaced in the copy alone
WriteCombined ==
    /\ mrg_pc = "annotations_reset"
    /\ d1' = [d1 EXCEPT !.images = d1.images \o d2.images,
                        !.annotations = d1.annotations \o d2.annotations]
    /\ output_file' = <<[images |-> d1.images \o d2.images,
                         annotations |-> d1.annotations \o d2.annotations,
                         categories |-> d2.categories]>>
    /\ mrg_pc' = "done"
    /\ UNCHANGED <<tt1, tt2, d2, b1, b2, mrg_err>>
    /\ UNCHANGED cmp_vars
    /\ UNCHANGED fn_vars
    /\ UNCHANGED ui_vars

(* Inputs of combine *)

UniqueIds(seq) == \A i, j \in Idx(seq) : i # j => seq[i].id # seq[j].id

\* Image lists with unique ids, which may repeat a file name; file 1's lists
\* start with the first file name (any other list is a renaming).  combine
\* carries width and category_id through unread: the records of file 1 are
\* given the value 1 and those of file 2 the value 2, so that the output
\* shows which file a record came from.
MergeImageLists(width) ==
    {seq \in SeqsUpTo([id : 1..MaxImages, file_name : Range(FileNameOrder),
                       width : {width}], MaxImages) : UniqueIds(seq)}
MergeImageLists1 ==
    {seq \in MergeImageLists(1) : seq # <<>> => seq[1].file_name = FileNameOrder[1]}
MergeImageLists2 == MergeImageLists(2)

\* Category lists with unique names and unique ids; file 1's are numbered by
\* position
MergeCategoryLists2 ==
    {seq \in SeqsUpTo([id : 1..MaxCategories, name : Range(CatNameOrder)],
                      MaxCategories) :
        UniqueIds(seq) /\ NoRepeat([i \in Idx(seq) |-> seq[i].name])}

\* Annotation lists with unique ids; image_id may name no image of the file
MergeAnnLists(category_id) ==
    {seq \in SeqsUpTo([id : 1..MaxAnns, image_id : 1..MaxImages,
                       category_id : {category_id}], MaxAnns) : UniqueIds(seq)}

InitCombine ==
    /\ tt1 \in [images : MergeImageLists1, categories : CategoryLists1,
                annotations : MergeAnnLists(1)]
    /\ tt2 \in [images : MergeImageLists2, categories : MergeCategoryLists2,
                annotations : MergeAnnLists(2)]
    /\ d1 = EmptyCollection /\ d2 = EmptyCollection
    /\ b1 = <<>> /\ b2 = <<>>
    /\ mrg_pc = "start"
    /\ mrg_err = NoError
    /\ output_file = <<>>
    /\ coco1 = EmptyCollection /\ coco2 = EmptyCollection
    /\ iou_threshold = <<1, 1>>
    /\ cmp_pc = "idle"
    /\ mismatches = <<>>
    /\ FunctionsIdle
    /\ SessionIdle

NextCombine ==
    \/ LoadFiles
    \/ RemoveDuplicates
    \/ CheckCategories
    \/ ResetImageIds
    \/ ResetAnnotationIds
    \/ WriteCombined

SpecCombine == InitCombine /\ [][NextCombine]_vars

----------------------------------------------------------------------------
(* Properties of combine, stated from the two input files, the collections *)
(* in memory and the file written                                          *)

CategoryPairs(c) == {<<c.categories[i].name, c.categories[i].id>> : i \in Idx(c.categories)}
CategoryNames(c) == {c.categories[i].name : i \in Idx(c.categories)}

\* Some name is in one file only, or in both under different ids
CategoriesInconsistent(c1, c2) ==
    \/ CategoryNames(c1) # CategoryNames(c2)
    \/ \E p \in CategoryPairs(c1), q \in CategoryPairs(c2) : p[1] = q[1] /\ p[2] # q[2]

CategoryMismatchRaised ==
    /\ mrg_pc = "failed"
    /\ mrg_err.kind \in {"id_differs", "not_in_file_2", "not_in_file_1"}

PastCategoryCheck == mrg_pc \in {"checked", "images_reset", "annotations_reset", "done", "failed"}

\* C7: combine raises the category-mismatch error exactly when some category
\* name is in one file only or is in both under different ids.
C7_CategoryMismatchIff ==
    PastCategoryCheck =>
        /\ CategoriesInconsistent(tt1, tt2) => CategoryMismatchRaised
        /\ ~CategoriesInconsistent(tt1, tt2) =>
               mrg_err.kind \notin {"id_differs", "not_in_file_2", "not_in_file_1"}

\* C7 witness: file 1's names all pass, and a name that only file 2 has
\* raises the error
C7_Witness ==
    /\ CategoryMismatchRaised
    /\ mrg_err.kind = "not_in_file_1"
    /\ tt1.categories # <<>>

\* C8: when the category check fails nothing has been written and every
\* record in memory still has the identifiers it had in its file.
C8_NothingPartialOnMismatch ==
    CategoryMismatchRaised =>
        /\ output_file = <<>>
        /\ d1 = tt1
        /\ Range(d2.images) \subseteq Range(tt2.images)
        /\ Range(d2.annotations) \subseteq Range(tt2.annotations)
        /\ d2.categories = tt2.categories

\* C8 witness: the check fails for files with images and annotations whose
\* ids are not the positions, after a duplicate file name was removed
C8_Witness ==
    /\ CategoryMismatchRaised
    /\ Len(tt1.images) = 2 /\ tt1.images[1].id = 2
    /\ tt1.annotations # <<>> /\ tt2.annotations # <<>>
    /\ Len(d2.images) < Len(tt2.images)
    /\ d2.images # <<>>

\* The input files meet the claim's conditions: ids unique within a file,
\* every annotation on an image of its own file
IdsUniqueAndResolved(c) ==
    /\ UniqueIds(c.images)
    /\ UniqueIds(c.annotations)
    /\ \A i \in Idx(c.annotations) :
           \E k \in Idx(c.images) : c.images[k].id = c.annotations[i].image_id

\* C9: in the file written, image ids are unique, annotation ids are unique
\* and every annotation's image_id is the id of an image of the file.
C9_UniqueAndResolved ==
    (/\ mrg_pc = "done"
     /\ IdsUniqueAndResolved(tt1) /\ IdsUniqueAndResolved(tt2)) =>
        /\ Len(output_file) = 1
        /\ IdsUniqueAndResolved(output_file[1])

\* C9 witness: both files bring images and annotations under the same ids
C9_Witness ==
    /\ mrg_pc = "done"
    /\ IdsUniqueAndResolved(tt1) /\ IdsUniqueAndResolved(tt2)
    /\ Len(output_file[1].images) = 4
    /\ Len(output_file[1].annotations) = 4
    /\ tt1.images[1].id = tt2.images[1].id
    /\ tt1.annotations[1].id = tt2.annotations[2].id

\* The file name of the image an annotation is on ("?" if there is none)
OwnerFile(c, ann) ==
    IF \E k \in Idx(c.images) : c.images[k].id = ann.image_id
    THEN c.images[CHOOSE k \in Idx(c.images) : c.images[k].id = ann.image_id].file_name
    ELSE "?"

FileNamesOf(c) == {c.images[i].file_name : i \in Idx(c.images)}

\* What a collection holds, ids aside: per image its file name and width,
\* per annotation its category_id and the file name of its image
ImageContent(c) == [i \in Idx(c.images) |-> <<c.images[i].file_name, c.images[i].width>>]
AnnContent(c) ==
    [i \in Idx(c.annotations) |->
        <<c.annotations[i].category_id, OwnerFile(c, c.annotations[i])>>]

Count(seq, x) == Cardinality({i \in Idx(seq) : seq[i] = x})

\* C10: the file written holds every image and annotation of file 1, and of
\* file 2 exactly the images whose file name file 1 does not have, with the
\* annotations on them: a file-2 image under a file name of file 1 and the
\* annotations on it are absent.
C10_DuplicateFilenamesDropped ==
    mrg_pc = "done" =>
        LET out == output_file[1]
            kept_images == SelectSeq(ImageContent(tt2),
                               LAMBDA x : x[1] \notin FileNamesOf(tt1))
            kept_anns == SelectSeq(AnnContent(tt2),
                               LAMBDA x : x[2] \notin FileNamesOf(tt1))
        IN  /\ \A x \in Range(ImageContent(out)) \cup Range(ImageContent(tt1))
                        \cup Range(ImageContent(tt2)) :
                   Count(ImageContent(out), x)
                       = Count(ImageContent(tt1), x) + Count(kept_images, x)
            /\ \A x \in Range(AnnContent(out)) \cup Range(AnnContent(tt1))
                        \cup Range(AnnContent(tt2)) :
                   Count(AnnContent(out), x)
                       = Count(AnnContent(tt1), x) + Count(kept_anns, x)

\* C10 witness: file 2 has an image under a file name of file 1 with an
\* annotation on it, and another image with an annotation that is kept
C10_Witness ==
    /\ mrg_pc = "done"
    /\ Len(tt2.images) = 2 /\ Len(tt2.annotations) = 2
    /\ tt2.images[1].file_name \in FileNamesOf(tt1)
    /\ tt2.images[2].file_name \notin FileNamesOf(tt1)
    /\ tt2.annotations[1].image_id = tt2.images[1].id
    /\ tt2.annotations[2].image_id = tt2.images[2].id
    /\ Len(output_file[1].images) = Len(tt1.images) + 1
    /\ Len(output_file[1].annotations) = Len(tt1.annotations) + 1

----------------------------------------------------------------------------
(* Stand-alone calls of the two matchers, in the order of lines 95 and 98  *)

MatchFileNames == {"a.jpg", "b.jpg", "c.jpg"}

\* Image lists with unique ids, under any file names
MatchImageLists(ids) ==
    {seq \in SeqsUpTo([id : ids, file_name : MatchFileNames], MaxImages) :
        UniqueIds(seq)}

\* Category lists with unique ids, under any names
MatchCategoryLists ==
    {seq \in SeqsUpTo([id : 1..MaxCategories, name : Range(CatNameOrder)],
                      MaxCategories) : UniqueIds(seq)}

\* Either the image lists or the category lists vary: each matcher reads
\* one of them alone
InitMatch ==
    /\ \/ /\ coco1 \in [images : MatchImageLists(1..MaxImages),
                          categories : {<<>>}, annotations : {<<>>}]
          /\ coco2 \in [images : MatchImageLists({1} \cup (10..(9 + MaxImages))),
                          categories : {<<>>}, annotations : {<<>>}]
       \/ /\ coco1 \in [images : {<<>>}, categories : MatchCategoryLists,
                          annotations : {<<>>}]
          /\ coco2 \in [images : {<<>>}, categories : MatchCategoryLists,
                          annotations : {<<>>}]
    /\ iou_threshold = <<1, 1>>
    /\ cmp_pc = "idle"
    /\ mismatches = <<>>
    /\ MergeIdle
    /\ ret_image_id_mapping = <<>> /\ ret_category_id_mapping = <<>>
    /\ match_pc = "ready"
    /\ arg_box1 = <<0, 0, 0, 0>> /\ arg_box2 = <<0, 0, 0, 0>>
    /\ ret_iou = <<0, 1>>
    /\ iou_pc = "idle"
    /\ SessionIdle

\* image_id_mapping = match_images_by_filename(coco1, coco2)
MatchImagesCall ==
    /\ match_pc = "ready"
    /\ ret_image_id_mapping' = match_images_by_filename(coco1, coco2)
    /\ match_pc' = "images_matched"
    /\ UNCHANGED <<ret_category_id_mapping, cmp_vars, mrg_vars, iou_vars, ui_vars>>

\* category_id_mapping = create_category_mapping(coco1, coco2)
CategoryMappingCall ==
    /\ match_pc = "images_matched"
    /\ ret_category_id_mapping' = create_category_mapping(coco1, coco2)
    /\ match_pc' = "categories_matched"
    /\ UNCHANGED <<ret_image_id_mapping, cmp_vars, mrg_vars, iou_vars, ui_vars>>

NextMatch == MatchImagesCall \/ CategoryMappingCall

SpecMatch == InitMatch /\ [][NextMatch]_vars

\* The map has an entry for exactly the ids in left_ids, and the entry of
\* an id is the id of a record of right that carries the key (file name or
\* name) of a record of left with that id
ExactCorrespondence(map, left, right, key) ==
    /\ DOMAIN map = {left[i].id : i \in {i \in Idx(left) :
                         \E k \in Idx(right) : right[k][key] = left[i][key]}}
    /\ \A id \in DOMAIN map :
           \E i \in Idx(left), k \in Idx(right) :
               /\ left[i].id = id
               /\ right[k][key] = left[i][key]
               /\ map[id] = right[k].id

\* C12: match_images_by_filename returns an entry id1 -> id2 exactly for
\* the images of collection 1 whose file name a collection-2 image carries,
\* id2 being that image's id; create_category_mapping does the same by
\* category name; an entity of one collection only gets no entry.  For
\* [{1,a.jpg},{2,b.jpg}] against [{10,b.jpg},{11,c.jpg}] the map is {2: 10}.
C12_ExactCorrespondenceMaps ==
    /\ match_pc \in {"images_matched", "categories_matched"} =>
           /\ ExactCorrespondence(ret_image_id_mapping,
                                    coco1.images, coco2.images, "file_name")
           /\ (/\ coco1.images = <<[id |-> 1, file_name |-> "a.jpg"],
                                    [id |-> 2, file_name |-> "b.jpg"]>>
               /\ coco2.images = <<[id |-> 10, file_name |-> "b.jpg"],
                                    [id |-> 11, file_name |-> "c.jpg"]>>)
                  => ret_image_id_mapping = (2 :> 10)
    /\ match_pc = "categories_matched" =>
           ExactCorrespondence(ret_category_id_mapping,
                               coco1.categories, coco2.categories, "name")

\* C12 witness: the example's two image lists have been matched
C12_Witness ==
    /\ match_pc = "categories_matched"
    /\ coco1.images = <<[id |-> 1, file_name |-> "a.jpg"],
                        [id |-> 2, file_name |-> "b.jpg"]>>
    /\ coco2.images = <<[id |-> 10, file_name |-> "b.jpg"],
                        [id |-> 11, file_name |-> "c.jpg"]>>
    /\ DOMAIN ret_image_id_mapping = {2}

----------------------------------------------------------------------------
(* Stand-alone calls of calculate_iou                                      *)

MaxCoord == 3

\* The boxes of the documented examples
ExampleBoxes == {<<0, 0, 10, 10>>, <<5, 5, 15, 15>>, <<0, 0, 1, 1>>, <<5, 5, 6, 6>>}

\* Every <<x1, y1, x2, y2>> over the grid, boxes of zero extent and boxes
\* with x2 < x1 or y2 < y1 among them
Boxes == [1..4 -> 0..MaxCoord] \cup ExampleBoxes

InitIou ==
    /\ arg_box1 \in Boxes
    /\ arg_box2 \in Boxes
    /\ ret_iou = <<0, 1>>
    /\ iou_pc = "ready"
    /\ ret_image_id_mapping = <<>> /\ ret_category_id_mapping = <<>>
    /\ match_pc = "idle"
    /\ coco1 = EmptyCollection /\ coco2 = EmptyCollection
    /\ iou_threshold = <<1, 1>>
    /\ cmp_pc = "idle"
    /\ mismatches = <<>>
    /\ MergeIdle
    /\ SessionIdle

\* iou = calculate_iou(box1, box2)
IouCall ==
    /\ iou_pc = "ready"
    /\ ret_iou' = calculate_iou(arg_box1, arg_box2)
    /\ iou_pc' = "returned"
    /\ UNCHANGED <<arg_box1, arg_box2, match_vars, cmp_vars, mrg_vars, ui_vars>>

NextIou == IouCall

SpecIou == InitIou /\ [][NextIou]_vars

Area(box) == (box[3] - box[1]) * (box[4] - box[2])
NonDegenerate(box) == box[1] < box[3] /\ box[2] < box[4]
IntersectionBox(a, b) == <<Max(a[1], b[1]), Max(a[2], b[2]), Min(a[3], b[3]), Min(a[4], b[4])>>
\* The two boxes share a region of positive area
Overlap(a, b) ==
    NonDegenerate(a) /\ NonDegenerate(b) /\ NonDegenerate(IntersectionBox(a, b))

\* C13: calculate_iou(a, b) = calculate_iou(b, a) for every pair of boxes.
C13_Symmetric ==
    iou_pc = "returned" => ret_iou = calculate_iou(arg_box2, arg_box1)

\* C13 witness: two overlapping boxes of different areas
C13_Witness ==
    /\ iou_pc = "returned"
    /\ Overlap(arg_box1, arg_box2)
    /\ Area(arg_box1) < Area(arg_box2)
    /\ ret_iou[1] > 0 /\ ret_iou[1] < ret_iou[2]

\* C14: for a box a with x1 < x2 and y1 < y2, calculate_iou(a, a) is 1.
C14_SelfIouIsOne ==
    (iou_pc = "returned" /\ arg_box1 = arg_box2 /\ NonDegenerate(arg_box1)) =>
        ret_iou[2] > 0 /\ ret_iou[1] = ret_iou[2]

\* C14 witness: a non-square box compared with itself
C14_Witness ==
    /\ iou_pc = "returned"
    /\ arg_box1 = <<1, 1, 3, 2>> /\ arg_box2 = <<1, 1, 3, 2>>
    /\ ret_iou = <<2, 2>>

\* C15: for all boxes, boxes of zero extent and boxes with x2 < x1 or
\* y2 < y1 included, 0 <= calculate_iou <= 1.
C15_InUnitInterval ==
    iou_pc = "returned" =>
        /\ ret_iou[2] > 0
        /\ 0 <= ret_iou[1]
        /\ ret_iou[1] <= ret_iou[2]

\* C15 witness: a box with x2 < x1 against a box of zero height
C15_Witness ==
    /\ iou_pc = "returned"
    /\ arg_box1[3] < arg_box1[1] /\ arg_box1[2] < arg_box1[4]
    /\ arg_box2[4] = arg_box2[2] /\ arg_box2[1] < arg_box2[3]

\* C16: for overlapping boxes with x1 <= x2 and y1 <= y2 the result is
\* intersection / union, the intersection being the area of (max x1, max y1,
\* min x2, min y2) and the union areaA + areaB - intersection; (0,0,10,10)
\* and (5,5,15,15) give 25 / 175.
C16_IntersectionOverUnion ==
    iou_pc = "returned" =>
        /\ Overlap(arg_box1, arg_box2) =>
               ret_iou = <<Area(IntersectionBox(arg_box1, arg_box2)),
                           Area(arg_box1) + Area(arg_box2)
                               - Area(IntersectionBox(arg_box1, arg_box2))>>
        /\ (arg_box1 = <<0, 0, 10, 10>> /\ arg_box2 = <<5, 5, 15, 15>>) =>
               ret_iou = <<25, 175>>

\* C16 witness: the documented example
C16_Witness ==
    /\ iou_pc = "returned"
    /\ arg_box1 = <<0, 0, 10, 10>> /\ arg_box2 = <<5, 5, 15, 15>>
    /\ ret_iou[1] = 25 /\ ret_iou[2] = 175

\* C17: calculate_iou returns 0, dividing by a positive number or not at
\* all, when the boxes do not overlap, when a box has zero or negative
\* width or height, and when the union area is zero.
C17_ZeroWithoutOverlap ==
    iou_pc = "returned" =>
        /\ ret_iou[2] > 0
        /\ ~Overlap(arg_box1, arg_box2) => ret_iou[1] = 0
        /\ Area(arg_box1) + Area(arg_box2)
               - Area(IntersectionBox(arg_box1, arg_box2)) = 0 => ret_iou[1] = 0
        /\ (arg_box1 = <<0, 0, 1, 1>> /\ arg_box2 = <<5, 5, 6, 6>>) => ret_iou = <<0, 1>>

\* C17 witness: a zero-area box compared with itself, the union area is zero
C17_Witness ==
    /\ iou_pc = "returned"
    /\ arg_box1 = <<1, 1, 1, 1>> /\ arg_box2 = <<1, 1, 1, 1>>
    /\ ret_iou = <<0, 1>>

----------------------------------------------------------------------------
(* The comparison and the two matchers called on the same collections      *)

\* Annotation records on the images and categories of the full lists
FullListAnnRecords(boxes) ==
    [image_id : Idx(FileNameOrder), category_id : Idx(CatNameOrder), bbox : boxes]

\* Collection 1 and the categories of collection 2 are the full lists, the
\* images of collection 2 any list; all boxes are the same box
InitReadOnly ==
    /\ coco1 \in [images : {ImageList(FileNameOrder)},
                  categories : {CategoryList(CatNameOrder)},
                  annotations : SeqsUpTo(FullListAnnRecords(BBoxes1), MaxAnns)]
    /\ coco2 \in [images : ImageLists2,
                  categories : {CategoryList(CatNameOrder)},
                  annotations : SeqsUpTo(FullListAnnRecords(BBoxes1), MaxAnns)]
    /\ iou_threshold = <<1, 2>>
    /\ cmp_pc = "ready"
    /\ mismatches = <<>>
    /\ MergeIdle
    /\ ret_image_id_mapping = <<>> /\ ret_category_id_mapping = <<>>
    /\ match_pc = "ready"
    /\ arg_box1 = <<0, 0, 0, 0>> /\ arg_box2 = <<0, 0, 0, 0>>
    /\ ret_iou = <<0, 1>>
    /\ iou_pc = "idle"
    /\ SessionIdle

NextReadOnly == CompareCall \/ MatchImagesCall \/ CategoryMappingCall

SpecReadOnly == InitReadOnly /\ [][NextReadOnly]_vars

\* C18: compare_coco_annotations, match_images_by_filename and
\* create_category_mapping leave both collections as they were: the same
\* image, category and annotation records in the same order after every
\* call.
C18_InputsUnchanged == [][coco1' = coco1 /\ coco2' = coco2]_vars

\* C18 witness: all three have been called on collections with annotations
\* and have returned non-empty results
C18_Witness ==
    /\ cmp_pc = "returned" /\ match_pc = "categories_matched"
    /\ mismatches # <<>>
    /\ DOMAIN ret_image_id_mapping # {} /\ DOMAIN ret_category_id_mapping # {}

----------------------------------------------------------------------------
(* Numbering of the combined file                                          *)

\* C20: in the file a successful combine writes, the image ids are 0, 1,
\* ..., n-1 in list order: file 1's n1 images come first under 0..n1-1 and
\* the retained images of file 2 follow from n1 on; the annotation ids are
\* numbered the same way, file 1's first and file 2's after them.
C20_ContiguousIds ==
    mrg_pc = "done" =>
        LET out == output_file[1]
            n1 == Len(tt1.images)
            m1 == Len(tt1.annotations)
        IN  /\ \A i \in Idx(out.images) :
                   /\ out.images[i].id = i - 1
                   /\ out.images[i].width = IF i <= n1 THEN 1 ELSE 2
                   /\ i <= n1 => out.images[i].file_name = tt1.images[i].file_name
            /\ Len(out.images) >= n1
            /\ \A i \in Idx(out.annotations) :
                   /\ out.annotations[i].id = i - 1
                   /\ out.annotations[i].category_id = IF i <= m1 THEN 1 ELSE 2
            /\ Len(out.annotations) >= m1

\* C20 witness: file 1's ids are not its positions, file 2 loses one image
\* and keeps one, which is numbered after file 1's two
C20_Witness ==
    /\ mrg_pc = "done"
    /\ Len(tt1.images) = 2 /\ tt1.images[1].id = 2
    /\ Len(tt2.images) = 2
    /\ Len(output_file[1].images) = 3
    /\ output_file[1].images[3].id = 2
    /\ Len(tt1.annotations) = 2 /\ tt1.annotations[1].id = 2
    /\ Len(output_file[1].annotations) = 3
    /\ output_file[1].annotations[3].id = 2

\* The annotations of file 2 that are not on an image under a file name of
\* file 1, in input order
RetainedAnnotations ==
    SelectSeq(tt2.annotations, LAMBDA ann : OwnerFile(tt2, ann) \notin FileNamesOf(tt1))

\* C21: every annotation of the combined file sits, through its rewritten
\* image_id, on an image with the file name of the image it referenced in
\* its own file before the renumbering (image ids unique within each file).
C21_AnnotationKeepsImage ==
    (mrg_pc = "done" /\ UniqueIds(tt1.images) /\ UniqueIds(tt2.images)) =>
        LET out == output_file[1]
            m1 == Len(tt1.annotations)
        IN  /\ Len(out.annotations) = m1 + Len(RetainedAnnotations)
            /\ UniqueIds(out.images)
            /\ \A i \in Idx(out.annotations) :
                   /\ OwnerFile(out, out.annotations[i]) # "?"
                   /\ OwnerFile(out, out.annotations[i]) =
                          IF i <= m1 THEN OwnerFile(tt1, tt1.annotations[i])
                          ELSE OwnerFile(tt2, RetainedAnnotations[i - m1])

\* C21 witness: the image of file 1 and the image file 2 keeps are both
\* renumbered (2 -> 0 and 2 -> 1), file 2 loses its first image, and each
\* file brings an annotation on its renumbered image
C21_Witness ==
    /\ mrg_pc = "done"
    /\ Len(tt1.images) = 1 /\ tt1.images[1].id = 2
    /\ Len(tt1.annotations) = 1
    /\ Len(tt2.images) = 2 /\ tt2.images[1].file_name \in FileNamesOf(tt1)
    /\ tt2.images[2].id = 2
    /\ Len(tt2.annotations) = 2 /\ Len(RetainedAnnotations) = 1
    /\ Len(output_file[1].annotations) = 2
    /\ output_file[1].annotations[2].image_id = 1

\* C22: the file written holds file 1's images followed by the images of
\* file 2 under a file name file 1 does not have, file 1's annotations
\* followed by file 2's retained annotations, each in input order, and
\* exactly file 2's category list; nothing of file 1 is dropped.
C22_ConcatenationOrder ==
    mrg_pc = "done" =>
        LET out == output_file[1]
        IN  /\ ImageContent(out) =
                   ImageContent(tt1) \o SelectSeq(ImageContent(tt2),
                                           LAMBDA x : x[1] \notin FileNamesOf(tt1))
            /\ AnnContent(out) =
                   AnnContent(tt1)
                       \o AnnContent([tt2 EXCEPT !.annotations = RetainedAnnotations])
            /\ out.categories = tt2.categories

\* C22 witness: file 2 lists the two categories in the other order than
\* file 1, loses its first image with the annotation on it and keeps its
\* second image and annotation
C22_Witness ==
    /\ mrg_pc = "done"
    /\ Len(tt1.categories) = 2 /\ tt2.categories # tt1.categories
    /\ tt1.images # <<>> /\ tt1.annotations # <<>>
    /\ Len(tt2.images) = 2 /\ tt2.images[1].file_name \in FileNamesOf(tt1)
    /\ Len(tt2.annotations) = 2
    /\ RetainedAnnotations = <<tt2.annotations[2]>>
    /\ Len(output_file[1].images) = Len(tt1.images) + 1

----------------------------------------------------------------------------
(* The comparison on boxes away from the origin                            *)

\* bbox values [x, y, width, height] with x, y > 0: the corner forms are
\* <<1, 2, 3, 4>> and <<1, 2, 3, 3>>, of IoU 2/4
ShiftedBoxes1 == {<<1, 2, 2, 2>>}
ShiftedBoxes2 == {<<1, 2, 2, 2>>, <<1, 2, 2, 1>>}

\* Collection 1 has the full lists; collection 2 has both images, in either
\* order, and the first category under either id, with or without the second
InitCompareRecords ==
    /\ coco1 \in [images : {ImageList(FileNameOrder)},
                  categories : {CategoryList(CatNameOrder)},
                  annotations : SeqsUpTo(FullListAnnRecords(ShiftedBoxes1), MaxAnns)]
    /\ coco2 \in [images : {l \in ImageLists2 : Len(l) = Len(FileNameOrder)},
                  categories : {l \in CategoryLists2 :
                                   \E i \in Idx(l) : l[i].name = CatNameOrder[1]},
                  annotations : SeqsUpTo(FullListAnnRecords(ShiftedBoxes2), MaxAnns)]
    /\ iou_threshold = <<1, 2>>
    /\ cmp_pc = "ready"
    /\ mismatches = <<>>
    /\ MergeIdle
    /\ FunctionsIdle
    /\ SessionIdle

SpecCompareRecords == InitCompareRecords /\ [][NextCompare]_vars

\* C23: every mismatch record is consistent: image_id is ann1's image_id,
\* image_filename the file name of the collection-1 image with that id, ann2
\* is on the collection-2 image with that file name, box1 and box2 are
\* (x, y, x+w, y+h) of the two bbox, iou is calculate_iou(box1, box2),
\* coco1_category is the name of ann1's category in collection 1, and ann1
\* and ann2 are annotation records of the collections.
C23_RecordConsistent ==
    cmp_pc = "returned" =>
        \A k \in Idx(mismatches) :
            LET rec == mismatches[k]
            IN  /\ rec.ann1 \in Range(coco1.annotations)
                /\ rec.ann2 \in Range(coco2.annotations)
                /\ rec.image_id = rec.ann1.image_id
                /\ \E i \in Idx(coco1.images) :
                       /\ coco1.images[i].id = rec.image_id
                       /\ coco1.images[i].file_name = rec.image_filename
                /\ \E i \in Idx(coco2.images) :
                       /\ coco2.images[i].id = rec.ann2.image_id
                       /\ coco2.images[i].file_name = rec.image_filename
                /\ rec.box1 = <<rec.ann1.bbox[1], rec.ann1.bbox[2],
                                rec.ann1.bbox[1] + rec.ann1.bbox[3],
                                rec.ann1.bbox[2] + rec.ann1.bbox[4]>>
                /\ rec.box2 = <<rec.ann2.bbox[1], rec.ann2.bbox[2],
                                rec.ann2.bbox[1] + rec.ann2.bbox[3],
                                rec.ann2.bbox[2] + rec.ann2.bbox[4]>>
                /\ rec.iou = calculate_iou(rec.box1, rec.box2)
                /\ \E i \in Idx(coco1.categories) :
                       /\ coco1.categories[i].id = rec.ann1.category_id
                       /\ coco1.categories[i].name = rec.coco1_category

\* C23 witness: a record for an image that has another id in collection 2,
\* with boxes of different size
C23_Witness ==
    /\ cmp_pc = "returned"
    /\ \E k \in Idx(mismatches) :
           /\ mismatches[k].ann2.image_id # mismatches[k].image_id
           /\ mismatches[k].box1 = <<1, 2, 3, 4>>
           /\ mismatches[k].box2 = <<1, 2, 3, 3>>
           /\ mismatches[k].iou = <<2, 4>>
           /\ mismatches[k].image_filename = "b.jpg"
           /\ mismatches[k].coco1_category = "dog"

\* C24: a collection-2 annotation on the corresponding image, with IoU at
\* or above the threshold, whose category_id is not in collection 2's
\* category list is reported as a mismatch under the collection-2 category
\* name "Unknown"; the call does not raise.
C24_UnknownCategoryReported ==
    cmp_pc # "ready" =>
        /\ cmp_pc = "returned"
        /\ \A i \in Idx(coco1.annotations), j \in Idx(coco2.annotations) :
               LET ann1 == coco1.annotations[i]
                   ann2 == coco2.annotations[j]
               IN  (/\ ann2.image_id \in CounterpartImageIds(coco1, coco2, ann1)
                    /\ CounterpartCategoryIds(coco1, coco2, ann1) # {}
                    /\ IouOf(ann1, ann2)[1] * iou_threshold[2]
                           >= iou_threshold[1] * IouOf(ann1, ann2)[2]
                    /\ \A q \in Idx(coco2.categories) :
                           coco2.categories[q].id # ann2.category_id)
                   => \E k \in Idx(mismatches) :
                          /\ mismatches[k].ann1 = ann1
                          /\ mismatches[k].ann2 = ann2
                          /\ mismatches[k].coco2_category = "Unknown"

\* C24 witness: collection 2 has one category; of its two annotations on
\* the same image the one under that category is not reported and the one
\* under the other id is reported as "Unknown"
C24_Witness ==
    /\ cmp_pc = "returned"
    /\ Len(coco2.categories) = 1
    /\ Len(coco1.annotations) = 1 /\ Len(coco2.annotations) = 2
    /\ coco2.annotations[1].image_id = coco2.annotations[2].image_id
    /\ coco2.annotations[1].category_id = coco2.categories[1].id
    /\ Len(mismatches) = 1
    /\ mismatches[1].ann2 = coco2.annotations[2]
    /\ mismatches[1].coco2_category = "Unknown"

\* C25: for two files with consistent categories, ids unique within each
\* file and every annotation on an image of its file, combine does not
\* fail, also when file 1 has no image or no annotation while file 2 has
\* some, and it then numbers the written records from 0.
C25_CompletesForConsistentFiles ==
    (/\ ~CategoriesInconsistent(tt1, tt2)
     /\ IdsUniqueAndResolved(tt1) /\ IdsUniqueAndResolved(tt2)) =>
        /\ mrg_pc # "failed"
        /\ mrg_pc = "done" =>
               /\ \A i \in Idx(output_file[1].images) :
                      output_file[1].images[i].id = i - 1
               /\ \A i \in Idx(output_file[1].annotations) :
                      output_file[1].annotations[i].id = i - 1

\* a is b with some elements left out, the others in b's order
RECURSIVE IsSubsequence(_, _)
IsSubsequence(a, b) ==
    IF a = <<>> THEN TRUE
    ELSE IF b = <<>> THEN FALSE
    ELSE IF Head(a) = Head(b) THEN IsSubsequence(Tail(a), Tail(b))
    ELSE IsSubsequence(a, Tail(b))

\* C26: for thresholds t1 <= t2 and the same collections the list returned
\* at t2 is a subsequence of the list returned at t1.
C26_MonotoneInThreshold ==
    cmp_pc = "returned" =>
        \A t2 \in Thresholds :
            iou_threshold[1] * t2[2] <= t2[1] * iou_threshold[2] =>
                /\ ~compare_coco_annotations(coco1, coco2, t2).raised
                /\ IsSubsequence(compare_coco_annotations(coco1, coco2, t2).out,
                                 mismatches)

\* C26 witness: two mismatches at the lower threshold, of which the second
\* alone remains at the higher one
C26_Witness ==
    /\ cmp_pc = "returned"
    /\ iou_threshold = <<1, 2>>
    /\ Len(mismatches) = 2
    /\ compare_coco_annotations(coco1, coco2, <<1, 1>>).out = <<mismatches[2]>>

\* The conditions of C27: file names and category names unique within each
\* collection, the same category names in both, every annotation under a
\* category of its own collection
SymmetryConditions(c1, c2) ==
    /\ \A c \in {c1, c2} :
           /\ NoRepeat([i \in Idx(c.images) |-> c.images[i].file_name])
           /\ NoRepeat([i \in Idx(c.categories) |-> c.categories[i].name])
           /\ \A i \in Idx(c.annotations) :
                  \E q \in Idx(c.categories) :
                      c.categories[q].id = c.annotations[i].category_id
    /\ CategoryNames(c1) = CategoryNames(c2)

\* C27: under these conditions (A1, A2) is a mismatch of the comparison of
\* (c1, c2) exactly if (A2, A1) is a mismatch of the comparison of (c2, c1)
\* at the same threshold.
C27_OrderOfFilesIrrelevant ==
    (cmp_pc = "returned" /\ SymmetryConditions(coco1, coco2)) =>
        LET swapped == compare_coco_annotations(coco2, coco1, iou_threshold)
        IN  /\ ~swapped.raised
            /\ \A i \in Idx(coco1.annotations), j \in Idx(coco2.annotations) :
                   Reported(coco1.annotations[i], coco2.annotations[j])
                       <=> \E k \in Idx(swapped.out) :
                               /\ swapped.out[k].ann1 = coco2.annotations[j]
                               /\ swapped.out[k].ann2 = coco1.annotations[i]

\* C27 witness: collection 2 numbers both the images and the categories the
\* other way round; of two pairs with boxes of different size one is a
\* mismatch and one is not
C27_Witness ==
    /\ cmp_pc = "returned"
    /\ SymmetryConditions(coco1, coco2)
    /\ coco2.images[1].file_name # coco1.images[1].file_name
    /\ coco2.categories[1].name # coco1.categories[1].name
    /\ Len(coco1.annotations) = 1 /\ Len(coco2.annotations) = 2
    /\ coco2.annotations[1].bbox # coco1.annotations[1].bbox
    /\ coco2.annotations[2].bbox # coco1.annotations[1].bbox
    /\ coco2.annotations[1].image_id = coco2.annotations[2].image_id
    /\ Len(mismatches) = 1
    /\ Len(compare_coco_annotations(coco2, coco1, iou_threshold).out) = 1

----------------------------------------------------------------------------
(* The Streamlit pages: src/pages/new.py (Register), filter.py (Filter),   *)
(* merge.py (Merge) and category.py (Category Editor).                     *)
(*                                                                         *)
(* Every widget interaction reruns the page's script from its first line   *)
(* with the st.session_state all pages of one browser session share, so an *)
(* action is one run of one page's script with one button pressed (or one  *)
(* input changed).  s3_call and ui_run describe the latest run only.       *)
(* Time passes between runs (Tick); a timestamp has a resolution of one    *)
(* second, so two runs may read the same one.  The comment suffix of the   *)
(* S3 key (s3_comment) is left out: nothing tests it.                      *)

MaxClock == 2

\* export_path = os.path.join(export_base_path, now)
ExportPath(base, stamp) == <<base, stamp>>

\* What the user may type into the S3 URI field
S3Uris == {"", "s3://bucket/prefix/"}

Run(page, button, message) ==
    [page |-> page, button |-> button, message |-> message]

\* The path a page tests before it offers the upload
PagePath(page) == IF page = "merge" THEN merged_task_path ELSE task_path

\* datetime.datetime.now() moves on to the next second
Tick ==
    /\ clock < MaxClock
    /\ clock' = clock + 1
    /\ UNCHANGED <<session_vars, widget_vars, disk, s3_call, ui_run>>
    /\ UNCHANGED <<cmp_vars, mrg_vars, fn_vars>>

\* Register page, "Register Annotation" pressed.  files: images and an
\* annotation file are uploaded; ok: the dataset library imports, splits
\* and exports without raising.
NewRegister ==
    \E files \in BOOLEAN, ok \in BOOLEAN :
        /\ IF files /\ ok
           THEN /\ task_path' = ExportPath("exported", clock)
                /\ now' = <<clock>>
                /\ disk' = disk \cup {ExportPath("exported", clock)}
                /\ ui_run' = Run("new", "Register Annotation",
                                 "New task created")
           ELSE /\ UNCHANGED <<task_path, now, disk>>
                /\ ui_run' = Run("new", "Register Annotation",
                                 IF files THEN "exception"
                                 ELSE "No file upload. Check both images and annotation.")
        /\ s3_call' = <<>>
        /\ UNCHANGED <<clock, merged_task_path, s3_uri, coco_data, widget_vars>>
        /\ UNCHANGED <<cmp_vars, mrg_vars, fn_vars>>

\* Mutant of NewUpload: the upload is made without testing the URI
NewUpload_NoUriTest ==
    \E ok \in BOOLEAN :
        /\ IF task_path # SessionNone
           THEN /\ s3_call' = <<[local_path |-> task_path,
                                 s3_uri |-> s3_uri, now |-> now]>>
                /\ ui_run' = Run("new", "Upload to S3",
                                 IF ok THEN "Data uploaded to S3"
                                 ELSE "exception")
           ELSE /\ s3_call' = <<>>
                /\ ui_run' = Run("new", "Upload to S3",
                                 "First create a task before uploading to S3.")
        /\ UNCHANGED <<clock, session_vars, widget_vars, disk>>
        /\ UNCHANGED <<cmp_vars, mrg_vars, fn_vars>>

\* Register page, "Upload to S3" pressed.  ok: the transfer does not raise.
NewUpload ==
    \E ok \in BOOLEAN :
        /\ IF task_path # SessionNone
           THEN IF s3_uri = ""
                THEN /\ s3_call' = <<>>
                     /\ ui_run' = Run("new", "Upload to S3", "Write S3 URI.")
                ELSE /\ s3_call' = <<[local_path |-> task_path,
                                      s3_uri |-> s3_uri, now |-> now]>>
                     /\ ui_run' = Run("new", "Upload to S3",
                                      IF ok THEN "Data uploaded to S3"
                                      ELSE "exception")
           ELSE /\ s3_call' = <<>>
                /\ ui_run' = Run("new", "Upload to S3",
                                 "First create a task before uploading to S3.")
        /\ UNCHANGED <<clock, session_vars, widget_vars, disk>>
        /\ UNCHANGED <<cmp_vars, mrg_vars, fn_vars>>

\* Filter page, "Register Annotation" pressed.  files: images, an
\* annotation file and a filter function are given.
FilterRegister ==
    \E files \in BOOLEAN, ok \in BOOLEAN :
        /\ IF files /\ ok
           THEN /\ task_path' = ExportPath("exported", clock)
                /\ now' = <<clock>>
                /\ disk' = disk \cup {ExportPath("exported", clock)}
                /\ ui_run' = Run("filter", "Register Annotation",
                                 "New task created")
           ELSE /\ UNCHANGED <<task_path, now, disk>>
                /\ ui_run' = Run("filter", "Register Annotation",
                                 IF files THEN "exception"
                                 ELSE "Please upload images, annotations, and define a filter function.")
        /\ s3_call' = <<>>
        /\ UNCHANGED <<clock, merged_task_path, s3_uri, coco_data, widget_vars>>
        /\ UNCHANGED <<cmp_vars, mrg_vars, fn_vars>>

\* Filter page, "Upload to S3" pressed
FilterUpload ==
    \E ok \in BOOLEAN :
        /\ IF task_path # SessionNone
           THEN IF s3_uri = ""
                THEN /\ s3_call' = <<>>
                     /\ ui_run' = Run("filter", "Upload to S3", "Write S3 URI.")
                ELSE /\ s3_call' = <<[local_path |-> task_path,
                                      s3_uri |-> s3_uri, now |-> now]>>
                     /\ ui_run' = Run("filter", "Upload to S3",
                                      IF ok THEN "Data uploaded to S3"
                                      ELSE "exception")
           ELSE /\ s3_call' = <<>>
                /\ ui_run' = Run("filter", "Upload to S3",
                                 "First create a task before uploading to S3.")
        /\ UNCHANGED <<clock, session_vars, widget_vars, disk>>
        /\ UNCHANGED <<cmp_vars, mrg_vars, fn_vars>>

\* Merge page, "Merge Datasets" pressed.  existing: the existing datasets
\* are named (S3) or uploaded (Local); without them the press does nothing.
MergeDatasets ==
    \E existing \in BOOLEAN, ok \in BOOLEAN :
        /\ IF existing /\ ok
           THEN /\ merged_task_path' = ExportPath("merged", clock)
                /\ now' = <<clock>>
                /\ disk' = disk \cup {ExportPath("merged", clock)}
                /\ ui_run' = Run("merge", "Merge Datasets",
                                 "Datasets merged and split")
           ELSE /\ UNCHANGED <<merged_task_path, now, disk>>
                /\ ui_run' = Run("merge", "Merge Datasets",
                                 IF existing THEN "exception" ELSE "")
        /\ s3_call' = <<>>
        /\ UNCHANGED <<clock, task_path, s3_uri, coco_data, widget_vars>>
        /\ UNCHANGED <<cmp_vars, mrg_vars, fn_vars>>

\* Merge page, "Upload Merged Dataset to S3" pressed; the button is only
\* drawn once merged_task_path is not None
MergeUpload ==
    \E ok \in BOOLEAN :
        /\ merged_task_path # SessionNone
        /\ IF merged_task_path = SessionNone
           THEN /\ s3_call' = <<>>
                /\ ui_run' = Run("merge", "Upload to S3",
                                 "First merge the datasets before uploading to S3.")
           ELSE IF s3_uri = ""
                THEN /\ s3_call' = <<>>
                     /\ ui_run' = Run("merge", "Upload to S3", "Write S3 URI.")
                ELSE /\ s3_call' = <<[local_path |-> merged_task_path,
                                      s3_uri |-> s3_uri, now |-> now]>>
                     /\ ui_run' = Run("merge", "Upload to S3",
                                      IF ok THEN "Data uploaded to S3"
                                      ELSE "exception")
        /\ UNCHANGED <<clock, session_vars, widget_vars, disk>>
        /\ UNCHANGED <<cmp_vars, mrg_vars, fn_vars>>

\* The S3 URI field is edited on a page that draws it
EditS3Uri ==
    \E page \in {"new", "filter", "merge"}, uri \in S3Uris :
        /\ PagePath(page) # SessionNone
        /\ uri # s3_uri
        /\ s3_uri' = uri
        /\ s3_call' = <<>>
        /\ ui_run' = Run(page, "", "")
        /\ UNCHANGED <<clock, task_path, merged_task_path, now, coco_data,
                       widget_vars, disk>>
        /\ UNCHANGED <<cmp_vars, mrg_vars, fn_vars>>

(* Category Editor *)

Category(id, name) == [id |-> id, name |-> name]
Annotation(id, image_id, category_id) ==
    [id |-> id, image_id |-> image_id, category_id |-> category_id]

\* COCO files the user may put into the uploader
EditorFiles ==
    { [images |-> <<[id |-> 1, file_name |-> "a.jpg"],
                    [id |-> 2, file_name |-> "b.jpg"]>>,
       categories |-> <<Category(1, "cat"), Category(2, "dog")>>,
       annotations |-> <<Annotation(1, 1, 1), Annotation(2, 1, 2),
                         Annotation(3, 2, 1), Annotation(4, 2, 2)>>],
      [images |-> <<[id |-> 7, file_name |-> "c.jpg"]>>,
       categories |-> <<Category(3, "bird"), Category(2, "dog")>>,
       annotations |-> <<Annotation(1, 7, 2), Annotation(2, 7, 3)>>] }

\* Category tables the user may submit from the editor form: a renamed
\* category, a deleted row, a duplicated id
CategoryEdits ==
    { <<Category(1, "cat"), Category(2, "wolf")>>,
      <<Category(2, "dog")>>,
      <<Category(1, "cat"), Category(1, "dog")>> }

\* f"{cat['id']}: {cat['name']}"
CategoryLabel(cat) == <<cat.id, cat.name>>

\* list(category_options.keys()): the labels in order of first occurrence
RECURSIVE OptionKeys(_)
OptionKeys(categories) ==
    IF categories = <<>> THEN <<>>
    ELSE LET rest == OptionKeys(SubSeq(categories, 1, Len(categories) - 1))
             label == CategoryLabel(categories[Len(categories)])
         IN  IF label \in Range(rest) THEN rest ELSE Append(rest, label)

\* The script's first step: a file in the uploader replaces the session's
\* COCO data, on every run
Reload(file, data) == IF file # <<>> THEN file ELSE data

\* Options of the multiselect as this run draws them
OptionsOf(data) ==
    IF data = SessionNone THEN <<>> ELSE OptionKeys(data[1].categories)

\* st.multiselect without a key: drawn with other options it is another
\* widget and starts empty
MultiselectValue(options, picked) ==
    IF options = category_options THEN picked ELSE {}

\* edited_df['id'].duplicated().any()
DuplicatedIds(categories) ==
    \E i, j \in Idx(categories) : i < j /\ categories[i].id = categories[j].id

\* The two list comprehensions of "Remove Selected Categories"
RemoveCategories(collection, cat_ids_to_remove) ==
    [collection EXCEPT
        !.categories = SelectSeq(@, LAMBDA cat : cat.id \notin cat_ids_to_remove),
        !.annotations = SelectSeq(@, LAMBDA ann :
                                         ann.category_id \notin cat_ids_to_remove)]

\* A file is put into the uploader
CategoryUpload ==
    \E file \in EditorFiles :
        /\ annotation_file # <<file>>
        /\ annotation_file' = <<file>>
        /\ coco_data' = <<file>>
        /\ category_options' = OptionsOf(<<file>>)
        /\ selected_cats_to_remove' =
               MultiselectValue(OptionsOf(<<file>>), selected_cats_to_remove)
        /\ s3_call' = <<>>
        /\ ui_run' = Run("category", "", "Successfully loaded COCO annotation file")
        /\ UNCHANGED <<clock, task_path, merged_task_path, now, s3_uri, disk>>
        /\ UNCHANGED <<cmp_vars, mrg_vars, fn_vars>>

\* The file is taken out of the uploader; the session keeps its COCO data
CategoryClearUploader ==
    /\ annotation_file # <<>>
    /\ annotation_file' = <<>>
    /\ category_options' = OptionsOf(coco_data)
    /\ selected_cats_to_remove' =
           MultiselectValue(OptionsOf(coco_data), selected_cats_to_remove)
    /\ s3_call' = <<>>
    /\ ui_run' = Run("category", "", "")
    /\ UNCHANGED <<clock, session_vars, disk>>
    /\ UNCHANGED <<cmp_vars, mrg_vars, fn_vars>>

\* The user changes the selection of the multiselect
CategorySelect ==
    \E picked \in SUBSET Range(category_options) :
        LET data == Reload(annotation_file, coco_data)
        IN  /\ data # SessionNone
            /\ picked # selected_cats_to_remove
            /\ coco_data' = data
            /\ category_options' = OptionsOf(data)
            /\ selected_cats_to_remove' = MultiselectValue(OptionsOf(data), picked)
            /\ s3_call' = <<>>
            /\ ui_run' = Run("category", "", "")
            /\ UNCHANGED <<clock, task_path, merged_task_path, now, s3_uri,
                           annotation_file, disk>>
            /\ UNCHANGED <<cmp_vars, mrg_vars, fn_vars>>

\* "Update Categories" submitted with the table edited
CategoryUpdate ==
    \E edited \in CategoryEdits :
        LET data == Reload(annotation_file, coco_data)
            updated == IF DuplicatedIds(edited) THEN data
                       ELSE <<[data[1] EXCEPT !.categories = edited]>>
        IN  /\ data # SessionNone
            /\ coco_data' = updated
            /\ category_options' = OptionsOf(updated)
            /\ selected_cats_to_remove' =
                   MultiselectValue(OptionsOf(updated), selected_cats_to_remove)
            /\ s3_call' = <<>>
            /\ ui_run' = Run("category", "Update Categories",
                             IF DuplicatedIds(edited)
                             THEN "Error: Duplicate category IDs found."
                             ELSE "Categories updated successfully!")
            /\ UNCHANGED <<clock, task_path, merged_task_path, now, s3_uri,
                           annotation_file, disk>>
            /\ UNCHANGED <<cmp_vars, mrg_vars, fn_vars>>

\* "Remove Selected Categories" pressed
CategoryRemove ==
    LET data == Reload(annotation_file, coco_data)
        options == OptionsOf(data)
        picked == MultiselectValue(options, selected_cats_to_remove)
        cat_ids_to_remove == {label[1] : label \in picked}
    IN  /\ data # SessionNone
        /\ coco_data' = IF picked # {}
                        THEN <<RemoveCategories(data[1], cat_ids_to_remove)>>
                        ELSE data
        /\ category_options' = options
        /\ selected_cats_to_remove' = picked
        /\ s3_call' = <<>>
        /\ ui_run' = Run("category", "Remove Selected Categories",
                         IF picked # {} THEN "Removed categories and their annotations."
                         ELSE "")
        /\ UNCHANGED <<clock, task_path, merged_task_path, now, s3_uri,
                       annotation_file, disk>>
        /\ UNCHANGED <<cmp_vars, mrg_vars, fn_vars>>

\* "Save Modified COCO File" pressed: save_coco_file stamps the export
CategorySave ==
    LET data == Reload(annotation_file, coco_data)
    IN  /\ data # SessionNone
        /\ coco_data' = data
        /\ category_options' = OptionsOf(data)
        /\ selected_cats_to_remove' =
               MultiselectValue(OptionsOf(data), selected_cats_to_remove)
        /\ task_path' = ExportPath("exported", clock)
        /\ now' = <<clock>>
        /\ disk' = disk \cup {ExportPath("exported", clock)}
        /\ s3_call' = <<>>
        /\ ui_run' = Run("category", "Save Modified COCO File",
                         "Modified COCO file saved")
        /\ UNCHANGED <<clock, merged_task_path, s3_uri, annotation_file>>
        /\ UNCHANGED <<cmp_vars, mrg_vars, fn_vars>>

\* The comparison is not running
CompareIdle ==
    /\ coco1 = EmptyCollection /\ coco2 = EmptyCollection
    /\ iou_threshold = <<1, 1>>
    /\ cmp_pc = "idle"
    /\ mismatches = <<>>

\* A browser session opens; the user moves between the four pages
InitSession ==
    /\ SessionIdle
    /\ CompareIdle
    /\ MergeIdle
    /\ FunctionsIdle

NextSession ==
    \/ Tick
    \/ NewRegister
    \/ NewUpload
    \/ FilterRegister
    \/ FilterUpload
    \/ MergeDatasets
    \/ MergeUpload
    \/ EditS3Uri
    \/ CategoryUpload
    \/ CategorySave

SpecSession == InitSession /\ [][NextSession]_vars

\* The user stays on the Category Editor
NextCategoryEditor ==
    \/ Tick
    \/ CategoryUpload
    \/ CategoryClearUploader
    \/ CategorySelect
    \/ CategoryUpdate
    \/ CategoryRemove
    \/ CategorySave

SpecCategoryEditor == InitSession /\ [][NextCategoryEditor]_vars

----------------------------------------------------------------------------
(* Claims about the pages *)

\* C28: on the Register, Filter and Merge pages upload_to_s3 is called only
\* in a run whose page has its task path set, by an export made earlier in
\* the session, and with a non-empty S3 URI; pressing the upload button
\* without a task or with an empty URI only warns and uploads nothing.
C28_UploadNeedsTaskAndUri ==
    /\ s3_call # <<>> =>
           /\ ui_run.page \in {"new", "filter", "merge"}
           /\ ui_run.button = "Upload to S3"
           /\ s3_call[1].local_path = PagePath(ui_run.page)
           /\ s3_call[1].local_path \in disk
           /\ s3_call[1].s3_uri # ""
    /\ ( /\ ui_run.button = "Upload to S3"
         /\ (PagePath(ui_run.page) = SessionNone \/ s3_uri = "") ) =>
           /\ s3_call = <<>>
           /\ ui_run.message \in {"First create a task before uploading to S3.",
                                  "Write S3 URI."}

\* The Register page uploads a task the session exported
C28_Witness ==
    /\ s3_call # <<>>
    /\ ui_run.page = "new"
    /\ s3_call[1].local_path \in disk
    /\ s3_call[1].s3_uri # ""

\* C29: whenever upload_to_s3 is called, the timestamp passed as now is the
\* one generated by the operation that produced the path being uploaded
\* (the path is os.path.join(base, timestamp of that operation)).
C29_TimestampOfUploadedPath ==
    s3_call # <<>> => s3_call[1].now = <<s3_call[1].local_path[2]>>

\* C30: a run of "Remove Selected Categories" with a non-empty selection
\* leaves the session's COCO data without the selected category ids and
\* without annotations of them, every other category and annotation and all
\* images as they were and in their order; with an empty selection the
\* COCO data stays as it was.
C30_RemoveOnlySelected ==
    [][ (ui_run'.button = "Remove Selected Categories" /\ coco_data # SessionNone) =>
          LET before == coco_data[1]
              ids == {label[1] : label \in selected_cats_to_remove'}
          IN  IF selected_cats_to_remove' # {}
              THEN /\ coco_data' # SessionNone
                   /\ coco_data'[1].images = before.images
                   /\ coco_data'[1].categories =
                          SelectSeq(before.categories, LAMBDA cat : cat.id \notin ids)
                   /\ coco_data'[1].annotations =
                          SelectSeq(before.annotations,
                                    LAMBDA ann : ann.category_id \notin ids)
              ELSE coco_data' = coco_data ]_vars

====
